---- MODULE Spec2Model ----
(***************************************************************************)
(* A model of the SUCOP crawler (src/sucop_crawler.py).                    *)
(*                                                                         *)
(* SpecCrawl  : get_page_content, i.e. retry_with_delay wrapped around     *)
(*              _get_content (navigation, sector and entity selection,     *)
(*              filters, the pagination loop).                             *)
(* SpecParse  : parse_normativa applied to the joined page sources.        *)
(* SpecNormalize : transform_data, json_to_csv and the fact table of        *)
(*              src/generate_powerbi_data.py applied to a record list.     *)
(* SpecRun    : the constructor followed by run (get_page_content,         *)
(*              parse_normativa, save_to_json, save_to_csv, driver.quit).  *)
(* SpecPrompt : solicitar_filtros reading console lines, then the          *)
(*              constructor.                                               *)
(***************************************************************************)
EXTENDS Integers, Sequences, FiniteSets, TLC

VARIABLES
    \* ---- get_page_content / retry_with_delay / _get_content ----
    site,              \* the listing as the renderer serves it: a sequence of pages
    pc,                \* position in get_page_content
    attempt,           \* retry_with_delay: the loop variable `attempt`
    calls,             \* number of calls of func made by retry_with_delay
    sleeps,            \* number of time.sleep(delay) made by retry_with_delay
    errs,              \* the exceptions raised by the calls of func, in order
    current_page,      \* _get_content: current_page
    shown,             \* page the browser session currently displays
    all_page_sources,  \* _get_content: all_page_sources (page numbers captured)
    visited,           \* history: the values current_page took in this attempt
    fault,             \* the renderer fault injected in the last step
    faulted,           \* some loop step of this attempt met a renderer fault
    endReason,         \* why the pagination loop of this attempt was left
    retryOutcome,      \* how retry_with_delay ended
    result,            \* what get_page_content returned
    \* ---- parse_normativa ----
    content,           \* the page sources that were joined, one item list per page
    ppc,               \* position in the sequence of parse_normativa calls
    out1,              \* the list returned by parse_normativa(html)
    out2,              \* the list returned by a second call on the same html
    outTwice,          \* the list returned for the html followed by itself
    outVariant,        \* the lists returned for the primary and the secondary
                       \* markup variant of one field
    \* ---- transform_data / json_to_csv ----
    rawIn,             \* the record list given to the normalization
    now,               \* what datetime.now() returns next
    npc,               \* position in the sequence of normalization calls
    frame,             \* what transform_data returned
    csvOut,            \* the csv file json_to_csv wrote
    fact,              \* what create_fact_table returned for the json data
    \* ---- __init__ / apply_filters / run ----
    filters,           \* self.estado, tipo_documento, fecha_inicio, fecha_fin
    filterLog,         \* the filter applications of the apply_filters call
                       \* that just returned, in order
    catalog,           \* which items the listing shows
    rpc,               \* position in __init__ and run
    driver,            \* the rendering session: "none", "open", "quit"
    quits,             \* number of driver.quit() calls
    runNormativas,     \* run: its local `normativas`
    parsed,            \* run called parse_normativa
    json_file,         \* normativas.json as save_to_json wrote it
    csv_file,          \* normativas.csv as save_to_csv wrote it
    finished,          \* run logged "Crawler finalizado"
    reported,          \* the last message run logged about its result
    runOutcome,        \* how run ended: "none", "returned", "raised"
    \* ---- solicitar_filtros ----
    prompt             \* position and locals of solicitar_filtros

crawlVars == <<site, pc, attempt, calls, sleeps, errs, current_page, shown,
               all_page_sources, visited, fault, faulted, endReason,
               retryOutcome, result>>

parseVars == <<content, ppc, out1, out2, outTwice, outVariant>>

normVars == <<rawIn, now, npc, frame, csvOut, fact>>

runVars == <<filters, catalog, rpc, driver, quits, runNormativas, parsed,
             json_file, csv_file, finished, reported, runOutcome>>

vars == <<crawlVars, parseVars, normVars, runVars, filterLog, prompt>>

\* what apply_filters leaves alone outside get_page_content
nonFilterVars == <<parseVars, normVars, runVars, prompt>>

\* what the steps of get_page_content leave alone
nonCrawlVars == <<nonFilterVars, filterLog>>

\* what the calls of parse_normativa leave alone
nonParseVars == <<crawlVars, normVars, runVars, filterLog, prompt>>

\* what the calls of the normalization leave alone
nonNormVars == <<crawlVars, parseVars, runVars, filterLog, prompt>>

----------------------------------------------------------------------------
(* Bounds of the model *)

\* the listing has at most MaxPage result pages
MaxPage == 3

\* a result page holds 0..MaxItemsOnPage item containers
MaxItemsOnPage == 1

\* the joined page sources given to parse_normativa hold at most MaxItems
\* listing items
MaxItems == 2

(* Program constants *)

\* retry_with_delay(self, func, max_retries=3, delay=5)
max_retries == 3

----------------------------------------------------------------------------
(* The renderer's listing.  Page n shows some item containers and a set of *)
(* pagination controls (their data-num); a control leads to the page of    *)
(* that number, so the last page shows no control beyond itself.           *)

Max(S) == CHOOSE x \in S : \A y \in S : y <= x
Min(S) == CHOOSE x \in S : \A y \in S : x <= y

PageSet(n, N) ==
    [controls : SUBSET ({n + 1, n + 2} \cap (1..N)), nitems : 0..MaxItemsOnPage]

Sites ==
    UNION { { s \in [1..N -> UNION { PageSet(n, N) : n \in 1..N }] :
                \A n \in 1..N : s[n] \in PageSet(n, N) } : N \in 1..MaxPage }

\* the first page that shows no control for its successor
LastPage(s) == Min({ k \in 1..Len(s) : (k + 1) \notin s[k].controls })

----------------------------------------------------------------------------
(* retry_with_delay *)

\* mutant: the delay is also slept after the last attempt
retry_sleeps_always(att) == att < max_retries

\* `if attempt < max_retries - 1: time.sleep(delay)  else: raise`
retry_sleeps(att) == att < max_retries - 1

\* `for attempt in range(max_retries)`: is there a further iteration
retry_has_next(att) == att + 1 < max_retries

\* mutant: the first failure is the one reported
reraised_first(es) == es[1]

\* a bare `raise` inside `except Exception as e` re-raises the exception
\* of the call that just failed
reraised(es) == es[Len(es)]

NoOutcome == [kind |-> "none"]
NoneValue == [kind |-> "None"]
Content(srcs) == [kind |-> "content", pages |-> srcs]

\* a file that was not written
NoFile == [kind |-> "absent"]

\* a crawler constructed without arguments: every filter is None
NoFilters ==
    [estado |-> "", tipo_documento |-> "", fecha_inicio |-> <<>>, fecha_fin |-> <<>>]

\* no normalization call is under way
NormIdle ==
    /\ rawIn = <<>>
    /\ now = 0
    /\ npc = "idle"
    /\ frame = NoOutcome
    /\ csvOut = NoFile
    /\ fact = NoOutcome

\* solicitar_filtros has not been called
NoPrompt == [at |-> "idle"]

\* no constructor call and no run are under way
RunIdle ==
    /\ filters = NoFilters
    /\ filterLog = <<>>
    /\ catalog = "none"
    /\ rpc = "idle"
    /\ driver = "none"
    /\ quits = 0
    /\ runNormativas = <<>>
    /\ parsed = FALSE
    /\ json_file = NoFile
    /\ csv_file = NoFile
    /\ finished = FALSE
    /\ reported = "none"
    /\ runOutcome = "none"
    /\ prompt = NoPrompt

\* func raised exception e inside retry_with_delay's try
FuncRaises(e) ==
    /\ errs' = Append(errs, e)
    /\ pc' = IF retry_sleeps(attempt) THEN "sleep" ELSE "raise"
    /\ UNCHANGED <<site, attempt, calls, sleeps, current_page, shown,
                   all_page_sources, visited, fault, faulted, endReason,
                   retryOutcome, result>>

----------------------------------------------------------------------------
(* Actions of get_page_content *)

\* get_page_content: `return self.retry_with_delay(_get_content)`
GetPageContent ==
    /\ pc = "start"
    /\ pc' = "call"
    /\ attempt' = 0
    /\ UNCHANGED <<site, calls, sleeps, errs, current_page, shown,
                   all_page_sources, visited, fault, faulted, endReason,
                   retryOutcome, result>>
    /\ UNCHANGED nonCrawlVars

\* mutant: the source of the landing page is kept before the loop starts
landing_page_sources == <<1>>

\* `all_page_sources = []`: a new list in every call of _get_content
fresh_page_sources == <<>>

\* retry_with_delay calls func(); _get_content starts with an empty
\* all_page_sources and driver.get(url), which may raise
Navigate ==
    /\ pc = "call"
    /\ calls' = calls + 1
    /\ all_page_sources' = fresh_page_sources
    /\ visited' = <<>>
    /\ current_page' = 0
    /\ faulted' = FALSE
    /\ endReason' = "none"
    /\ \E ok \in BOOLEAN :
         IF ok
         THEN /\ shown' = 1
              /\ pc' = "sector"
              /\ fault' = "none"
              /\ UNCHANGED errs
         ELSE /\ shown' = 0
              /\ fault' = "nav"
              /\ errs' = Append(errs, "nav")
              /\ pc' = IF retry_sleeps(attempt) THEN "sleep" ELSE "raise"
    /\ UNCHANGED <<site, attempt, sleeps, retryOutcome, result>>
    /\ UNCHANGED nonCrawlVars

\* wait_and_select(By.ID, "slt-sector", "Agropecuario"); False raises
SelectSector ==
    /\ pc = "sector"
    /\ \E ok \in BOOLEAN :
         IF ok
         THEN /\ pc' = "entity"
              /\ UNCHANGED <<site, attempt, calls, sleeps, errs, current_page,
                             shown, all_page_sources, visited, fault, faulted,
                             endReason, retryOutcome, result>>
         ELSE FuncRaises("sector")
    /\ UNCHANGED nonCrawlVars

\* wait_and_select(By.ID, "slt-entidad", ...); False raises
SelectEntity ==
    /\ pc = "entity"
    /\ \E ok \in BOOLEAN :
         IF ok
         THEN /\ pc' = "filters"
              /\ UNCHANGED <<site, attempt, calls, sleeps, errs, current_page,
                             shown, all_page_sources, visited, fault, faulted,
                             endReason, retryOutcome, result>>
         ELSE FuncRaises("entity")
    /\ UNCHANGED nonCrawlVars

\* apply_filters tries the filters in this order
FilterFields == <<"estado", "tipo_documento", "fecha_inicio", "fecha_fin">>

\* `if self.estado:` and the like: None and '' are both skipped
is_set(f, field) ==
    CASE field = "estado"         -> f.estado # ""
      [] field = "tipo_documento" -> f.tipo_documento # ""
      [] field = "fecha_inicio"   -> f.fecha_inicio # <<>>
      [] field = "fecha_fin"      -> f.fecha_fin # <<>>

\* the filters apply_filters tries, in order
present_fields(f) == SelectSeq(FilterFields, LAMBDA field : is_set(f, field))

\* mutant: a filter that fails ends apply_filters
after_filter_stops(ok, rest) == IF ok THEN rest ELSE <<>>

\* every filter has a try/except of its own that only logs: the filters
\* after it are tried whether it failed or not
after_filter(ok, rest) == rest

\* the filter applications apply_filters makes when the renderer fails
\* the fields in `fails`
RECURSIVE apply_each(_, _)
apply_each(fields, fails) ==
    IF fields = <<>> THEN <<>>
    ELSE LET ok == Head(fields) \notin fails
         IN  <<[field |-> Head(fields), ok |-> ok]>>
             \o apply_each(after_filter(ok, Tail(fields)), fails)

\* apply_filters() never raises; its value only decides a warning.
\* Then `current_page = 1` and the loop is entered.
ApplyFilters ==
    /\ pc = "filters"
    /\ \E fails \in SUBSET { FilterFields[i] : i \in 1..Len(FilterFields) } :
         /\ \A field \in fails : is_set(filters, field)
         /\ filterLog' = apply_each(present_fields(filters), fails)
    /\ pc' = "extract"
    /\ current_page' = 1
    /\ visited' = <<1>>
    /\ UNCHANGED <<site, attempt, calls, sleeps, errs, shown, all_page_sources,
                   fault, faulted, endReason, retryOutcome, result>>
    /\ UNCHANGED nonFilterVars

\* mutant: an error met in the loop leaves _get_content as an exception
BreakPropagates(reason, f) ==
    /\ endReason' = reason
    /\ fault' = f
    /\ faulted' = (faulted \/ f # "none")
    /\ IF f = "none"
       THEN pc' = "break" /\ UNCHANGED errs
       ELSE /\ errs' = Append(errs, f)
            /\ pc' = IF retry_sleeps(attempt) THEN "sleep" ELSE "raise"

\* the loop is left by `break`: every exception raised in the loop body is
\* caught inside it, none leaves _get_content
Break(reason, f) ==
    /\ pc' = "break"
    /\ endReason' = reason
    /\ fault' = f
    /\ faulted' = (faulted \/ f # "none")
    /\ UNCHANGED errs

\* does the page hold item containers (either class)
has_proceso_elements(page) == page.nitems > 0

\* mutant: a page without item containers ends the traversal
after_extract_stops(page) ==
    IF has_proceso_elements(page) THEN "seek" ELSE "break"

\* after the item containers were looked up, found or not, the loop body
\* goes on to the pagination links
after_extract(page) == "seek"

\* mutant: only the source of the page displayed last is kept
keep_last_page_source(srcs, page) == <<page>>

\* all_page_sources.append(self.driver.page_source)
keep_page_source(srcs, page) == Append(srcs, page)

\* loop body, first half: find the item containers of the displayed page
\* and keep its page_source when there are some.  Any exception here is
\* caught by the loop's outer `except`, which breaks.
Extract ==
    /\ pc = "extract"
    /\ \E raises \in BOOLEAN :
         IF raises
         THEN /\ Break("page_error", "page")
              /\ UNCHANGED all_page_sources
         ELSE /\ all_page_sources' =
                    IF has_proceso_elements(site[shown])
                    THEN keep_page_source(all_page_sources, shown)
                    ELSE all_page_sources
              /\ pc' = after_extract(site[shown])
              /\ fault' = "none"
              /\ UNCHANGED <<faulted, endReason, errs>>
    /\ UNCHANGED <<site, attempt, calls, sleeps, current_page, shown,
                   visited, retryOutcome, result>>
    \* the trace of the apply_filters call ends where the loop starts
    /\ filterLog' = <<>>
    /\ UNCHANGED nonFilterVars

\* mutant: any later page number is accepted
link_matches_later(page_num, cur) == page_num > cur

\* `if page_num == current_page + 1`
link_matches(page_num, cur) == page_num = cur + 1

\* the data-num of the first pagination link (document order) the loop
\* over page_links accepts; 0 when it accepts none
next_page_link(page, cur) ==
    LET ok == { p \in page.controls : link_matches(p, cur) }
    IN  IF ok = {} THEN 0 ELSE Min(ok)

\* mutant: the selector has no data-num part and takes the first control
css_first_link(page, cur) ==
    IF page.controls # {} THEN Min(page.controls) ELSE 0

\* the CSS selector .J-paginationjs-page[data-num='<current_page + 1>']
css_next_link(page, cur) ==
    IF (cur + 1) \in page.controls THEN cur + 1 ELSE 0

\* a click on the control of page p makes the session display page p;
\* current_page becomes n
GoTo(p, n) ==
    /\ current_page' = n
    /\ shown' = p
    /\ visited' = Append(visited, n)
    /\ pc' = "extract"
    /\ UNCHANGED <<endReason, errs>>

\* loop body, second half: look for the control of page current_page + 1
SeekNext ==
    /\ pc = "seek"
    /\ \E linksRaise \in BOOLEAN, clickRaises \in BOOLEAN :
         LET page == site[shown]
             nxt == next_page_link(page, current_page)
             css == css_next_link(page, current_page)
         IN  IF ~linksRaise
             THEN \* for link in page_links: ... (errors per link: continue)
                  IF nxt # 0 /\ ~clickRaises
                  THEN /\ GoTo(nxt, nxt)
                       /\ fault' = "none"
                       /\ UNCHANGED faulted
                  ELSE \* `if not next_page_found: break`
                       /\ Break("no_next",
                                IF nxt # 0 THEN "click" ELSE "none")
                       /\ UNCHANGED <<current_page, shown, visited>>
             ELSE \* find_elements or the logging of the links raised:
                  \* the handler tries the CSS selector
                  IF css # 0 /\ ~clickRaises
                  THEN /\ GoTo(css, current_page + 1)
                       /\ fault' = "links"
                       /\ faulted' = TRUE
                  ELSE /\ Break("css_error",
                                IF css # 0 THEN "links+click" ELSE "links")
                       /\ UNCHANGED <<current_page, shown, visited>>
    /\ UNCHANGED <<site, attempt, calls, sleeps, all_page_sources,
                   retryOutcome, result>>
    /\ UNCHANGED nonCrawlVars

\* after the loop: `return "\n".join(all_page_sources)`; retry_with_delay
\* returns that value and so does get_page_content
ReturnContent ==
    /\ pc = "break"
    /\ pc' = "returned"
    /\ retryOutcome' = [kind |-> "return", val |-> Content(all_page_sources)]
    /\ result' = Content(all_page_sources)
    /\ UNCHANGED <<site, attempt, calls, sleeps, errs, current_page, shown,
                   all_page_sources, visited, fault, faulted, endReason>>
    /\ UNCHANGED nonCrawlVars

\* retry_with_delay: time.sleep(delay), then the next iteration of the for
\* loop; a for loop that runs out falls off the end of the function
Sleep ==
    /\ pc = "sleep"
    /\ sleeps' = sleeps + 1
    /\ IF retry_has_next(attempt)
       THEN /\ attempt' = attempt + 1
            /\ pc' = "call"
            /\ UNCHANGED <<retryOutcome, result>>
       ELSE /\ pc' = "returned"
            /\ retryOutcome' = [kind |-> "return", val |-> NoneValue]
            /\ result' = NoneValue
            /\ UNCHANGED attempt
    /\ UNCHANGED <<site, calls, errs, current_page, shown, all_page_sources,
                   visited, fault, faulted, endReason>>
    /\ UNCHANGED nonCrawlVars

\* retry_with_delay re-raises; get_page_content's except returns None
RetryRaise ==
    /\ pc = "raise"
    /\ pc' = "failed"
    /\ retryOutcome' = [kind |-> "raise", exc |-> reraised(errs)]
    /\ result' = NoneValue
    /\ UNCHANGED <<site, attempt, calls, sleeps, errs, current_page, shown,
                   all_page_sources, visited, fault, faulted, endReason>>
    /\ UNCHANGED nonCrawlVars

InitCrawl ==
    /\ site \in Sites
    /\ pc = "start"
    /\ attempt = 0
    /\ calls = 0
    /\ sleeps = 0
    /\ errs = <<>>
    /\ current_page = 0
    /\ shown = 0
    /\ all_page_sources = <<>>
    /\ visited = <<>>
    /\ fault = "none"
    /\ faulted = FALSE
    /\ endReason = "none"
    /\ retryOutcome = NoOutcome
    /\ result = NoOutcome
    \* no parse_normativa call in this specification
    /\ content = <<>>
    /\ ppc = "idle"
    /\ out1 = <<>>
    /\ out2 = <<>>
    /\ outTwice = <<>>
    /\ outVariant = <<>>
    \* a crawler without filters; no normalization and no run
    /\ NormIdle
    /\ RunIdle

NextCrawl ==
    \/ GetPageContent
    \/ Navigate
    \/ SelectSector
    \/ SelectEntity
    \/ ApplyFilters
    \/ Extract
    \/ SeekNext
    \/ ReturnContent
    \/ Sleep
    \/ RetryRaise

SpecCrawl == InitCrawl /\ [][NextCrawl]_vars

\* the calls are sequential and blocking: a step that can be taken is taken
SpecCrawlFair == SpecCrawl /\ WF_vars(NextCrawl)

----------------------------------------------------------------------------
(* Rendered markup.  A node is a tag with its classes, its href attribute, *)
(* and its children; a text node carries a sequence of characters.         *)

NoAttr == "#no-attribute"

TextNode(chars) ==
    [tag |-> "#text", cls |-> {}, href |-> NoAttr, text |-> chars, kids |-> <<>>]

El(tag, classes, kids) ==
    [tag |-> tag, cls |-> classes, href |-> NoAttr, text |-> <<>>, kids |-> kids]

Anchor(href, chars) ==
    [tag |-> "a", cls |-> {}, href |-> href, text |-> <<>>,
     kids |-> <<TextNode(chars)>>]

\* the value of a lookup that found nothing
None == [tag |-> "#None", cls |-> {}, href |-> NoAttr, text |-> <<>>, kids |-> <<>>]

RECURSIVE Flatten(_)
Flatten(ss) == IF ss = <<>> THEN <<>> ELSE Head(ss) \o Flatten(Tail(ss))

\* the descendants of a node in document order
RECURSIVE Descendants(_)
Descendants(node) ==
    Flatten([i \in 1..Len(node.kids) |->
                <<node.kids[i]>> \o Descendants(node.kids[i])])

\* no class_ argument given
AnyClass == "#any-class"

Matches(e, tag, class) == e.tag = tag /\ (class = AnyClass \/ class \in e.cls)

\* soup.find_all(tag, class_=class)
find_all(node, tag, class) ==
    SelectSeq(Descendants(node), LAMBDA e : Matches(e, tag, class))

\* the first node of the sequence `nodes` or of their descendants, in
\* document order, that matches; None when there is none
RECURSIVE FirstMatch(_, _, _)
FirstMatch(nodes, tag, class) ==
    IF nodes = <<>> THEN None
    ELSE IF Matches(Head(nodes), tag, class) THEN Head(nodes)
    ELSE LET below == FirstMatch(Head(nodes).kids, tag, class)
         IN  IF below # None THEN below ELSE FirstMatch(Tail(nodes), tag, class)

\* node.find(tag, class_=class): the first match in document order, or None
find(node, tag, class) == FirstMatch(node.kids, tag, class)

\* node.find(tag)
find_tag(node, tag) == FirstMatch(node.kids, tag, AnyClass)

\* mutant: the second lookup is never used
OrFirstOnly(a, b) == a

\* mutant: the second lookup wins whenever it finds a node
OrSecondFirst(a, b) == IF b # None THEN b ELSE a

\* `a or b` on lookup results: a Tag is truthy, None is not
Or(a, b) == LET first == a IN IF first # None THEN first ELSE b

\* node.text: the strings of the node's descendants, concatenated
get_text(node) ==
    LET d == Descendants(node) IN Flatten([i \in 1..Len(d) |-> d[i].text])

\* link.get('href', '')
get_href(node) == IF node.href = NoAttr THEN "" ELSE node.href

----------------------------------------------------------------------------
(* Strings as sequences of characters *)

Whitespace == {" ", "\t", "\n"}

RECURSIVE lstrip(_)
lstrip(cs) ==
    IF cs # <<>> /\ Head(cs) \in Whitespace THEN lstrip(Tail(cs)) ELSE cs

RECURSIVE rstrip(_)
rstrip(cs) ==
    IF cs # <<>> /\ cs[Len(cs)] \in Whitespace
    THEN rstrip(SubSeq(cs, 1, Len(cs) - 1)) ELSE cs

\* str.strip()
strip(cs) == rstrip(lstrip(cs))

Digits == {"0", "1", "2", "3", "4", "5", "6", "7", "8", "9"}

DigitVal(c) ==
    CASE c = "0" -> 0 [] c = "1" -> 1 [] c = "2" -> 2 [] c = "3" -> 3
      [] c = "4" -> 4 [] c = "5" -> 5 [] c = "6" -> 6 [] c = "7" -> 7
      [] c = "8" -> 8 [] c = "9" -> 9

RECURSIVE DigitsValue(_, _)
DigitsValue(cs, acc) ==
    IF cs = <<>> THEN acc
    ELSE IF Head(cs) = "_" THEN DigitsValue(Tail(cs), acc)
    ELSE DigitsValue(Tail(cs), 10 * acc + DigitVal(Head(cs)))

\* int(text): surrounding whitespace, an optional sign, decimal digits with
\* single underscores between digits; anything else is a ValueError
py_int(text) ==
    LET s    == strip(text)
        neg  == s # <<>> /\ Head(s) = "-"
        body == IF s # <<>> /\ Head(s) \in {"+", "-"} THEN Tail(s) ELSE s
        wellFormed ==
            /\ body # <<>>
            /\ \A i \in 1..Len(body) : body[i] \in Digits \cup {"_"}
            /\ body[1] \in Digits
            /\ body[Len(body)] \in Digits
            /\ \A i \in 1..(Len(body) - 1) : ~(body[i] = "_" /\ body[i + 1] = "_")
    IN  IF wellFormed
        THEN [ok |-> TRUE,
              val |-> IF neg THEN 0 - DigitsValue(body, 0) ELSE DigitsValue(body, 0)]
        ELSE [ok |-> FALSE, val |-> 0]

----------------------------------------------------------------------------
(* parse_normativa *)

\* mutant: a count that is no integer is not handled where it is parsed
comentarios_uncaught(num_div) ==
    LET r == py_int(strip(get_text(num_div)))
    IN  IF r.ok THEN [raised |-> FALSE, val |-> r.val]
        ELSE [raised |-> TRUE, val |-> 0]

\* try: comentarios = int(num_div.text.strip())
\* except ValueError: (warning) -- comentarios keeps its initial 0
comentarios_of(num_div) ==
    LET r == py_int(strip(get_text(num_div)))
    IN  IF r.ok THEN [raised |-> FALSE, val |-> r.val]
        ELSE [raised |-> FALSE, val |-> 0]

\* the text of the date span of one date column ('' when a level is missing)
fecha_of(fechas, primary, secondary) ==
    LET col == Or(find(fechas, "div", primary), find(fechas, "div", secondary))
    IN  IF col = None THEN <<>>
        ELSE LET fecha_span == Or(find(col, "span", "bq-fechas-value"),
                                  find(col, "span", "fecha"))
             IN  IF fecha_span = None THEN <<>> ELSE strip(get_text(fecha_span))

\* the body of `for proceso in procesos`: the record of one item container,
\* or the reason why the container gives none
extract_item(proceso) ==
    LET header == Or(find(proceso, "div", "bq-proceso-header-title"),
                     find(proceso, "div", "proceso-title"))
        link   == find_tag(header, "a")
        url    == get_href(link)
        fechas == Or(find(proceso, "div", "bq-normaFechas"),
                     find(proceso, "div", "fechas-container"))
        estado_div == Or(find(proceso, "div", "estado-container"),
                         find(proceso, "div", "estado"))
        estado_text == find_tag(estado_div, "div")
        comentarios_div == Or(find(proceso, "div", "respuestasContainer"),
                              find(proceso, "div", "comentarios"))
        num_div == Or(find(comentarios_div, "div", "bq-statics-number"),
                      find(comentarios_div, "div", "numero"))
        comentarios == IF comentarios_div = None \/ num_div = None
                       THEN [raised |-> FALSE, val |-> 0]
                       ELSE comentarios_of(num_div)
    IN  IF header = None THEN [kind |-> "skip", why |-> "no header"]
        ELSE IF link = None THEN [kind |-> "skip", why |-> "no link"]
        ELSE IF url = "" THEN [kind |-> "skip", why |-> "empty url"]
        ELSE IF comentarios.raised THEN [kind |-> "skip", why |-> "error"]
        ELSE [kind |-> "record",
              rec |-> [titulo |-> strip(get_text(link)),
                       url |-> url,
                       fecha_publicacion |->
                           IF fechas = None THEN <<>>
                           ELSE fecha_of(fechas, "bq-col-publicado", "fecha-publicacion"),
                       fecha_cierre |->
                           IF fechas = None THEN <<>>
                           ELSE fecha_of(fechas, "bq-col-cierre", "fecha-cierre"),
                       estado |->
                           IF estado_div = None \/ estado_text = None THEN <<>>
                           ELSE strip(get_text(estado_text)),
                       comentarios |-> comentarios.val]]

\* mutant: no check against the records already kept
url_seen_never(normativas, url) == FALSE

\* mutant: only the record kept last is compared
url_seen_last(normativas, url) ==
    normativas # <<>> /\ normativas[Len(normativas)].url = url

\* `any(n['url'] == url for n in normativas)`
url_seen(normativas, url) ==
    \E i \in 1..Len(normativas) : normativas[i].url = url

\* mutant: a container that gives no record ends the loop
skip_breaks(rest) == <<>>

\* `continue`: after a container that gives no record (no header, no link,
\* empty url, or an exception) the loop goes on with the remaining ones
skip_continues(rest) == rest

\* the loop over procesos
RECURSIVE parse_loop(_, _)
parse_loop(procesos, normativas) ==
    IF procesos = <<>> THEN normativas
    ELSE LET item == extract_item(Head(procesos))
         IN  IF item.kind = "skip"
             THEN parse_loop(skip_continues(Tail(procesos)), normativas)
             ELSE parse_loop(Tail(procesos),
                     IF ~url_seen(normativas, item.rec.url)
                     THEN Append(normativas, item.rec)
                     ELSE normativas)

\* the item containers: those of class bq-proceso, and only when there are
\* none those of class proceso-container
procesos_of(soup) ==
    LET procesos == find_all(soup, "div", "bq-proceso")
    IN  IF procesos # <<>> THEN procesos
        ELSE find_all(soup, "div", "proceso-container")

\* parse_normativa(html_content); normativas starts empty at each call
parse_normativa(soup) == parse_loop(procesos_of(soup), <<>>)

----------------------------------------------------------------------------
(* The listing items as the site renders them.  Every block of an item     *)
(* exists in two markup variants, "P" (primary class names) and "S"        *)
(* (secondary class names); a block that is missing is an empty sequence.  *)

Variants == {"P", "S"}
Fields == {"container", "title", "dates", "status", "comments"}

\* the class names of the two markup variants
ClassName(block, v) ==
    CASE block = "container" -> IF v = "P" THEN "bq-proceso" ELSE "proceso-container"
      [] block = "title"     -> IF v = "P" THEN "bq-proceso-header-title" ELSE "proceso-title"
      [] block = "fechas"    -> IF v = "P" THEN "bq-normaFechas" ELSE "fechas-container"
      [] block = "pub"       -> IF v = "P" THEN "bq-col-publicado" ELSE "fecha-publicacion"
      [] block = "cie"       -> IF v = "P" THEN "bq-col-cierre" ELSE "fecha-cierre"
      [] block = "span"      -> IF v = "P" THEN "bq-fechas-value" ELSE "fecha"
      [] block = "estado"    -> IF v = "P" THEN "estado-container" ELSE "estado"
      [] block = "com"       -> IF v = "P" THEN "respuestasContainer" ELSE "comentarios"
      [] block = "num"       -> IF v = "P" THEN "bq-statics-number" ELSE "numero"

Map(s, Op(_)) == [i \in 1..Len(s) |-> Op(s[i])]

RenderCol(block, col) ==
    El("div", {ClassName(block, col.v)},
       Map(col.spans, LAMBDA sp :
              El("span", {ClassName("span", sp.v)}, <<TextNode(sp.txt)>>)))

RenderItem(it) ==
    El("div", {ClassName("container", it.cont)},
       Map(it.hdr, LAMBDA h :
              El("div", {ClassName("title", h.v)},
                 Map(h.links, LAMBDA l : Anchor(l.href, l.title))))
       \o Map(it.fechas, LAMBDA f :
              El("div", {ClassName("fechas", f.v)},
                 Map(f.pub, LAMBDA c : RenderCol("pub", c))
                 \o Map(f.cie, LAMBDA c : RenderCol("cie", c))))
       \o Map(it.est, LAMBDA e :
              El("div", {ClassName("estado", e.v)},
                 Map(e.inner, LAMBDA t : El("div", {}, <<TextNode(t)>>))))
       \o Map(it.com, LAMBDA c :
              El("div", {ClassName("com", c.v)},
                 Map(c.nums, LAMBDA n :
                        El("div", {ClassName("num", n.v)}, <<TextNode(n.txt)>>)))))

\* driver.page_source of one result page: its items, then the pagination bar
RenderPage(items) ==
    Map(items, RenderItem)
    \o <<El("div", {"paginationjs"},
            <<El("li", {"J-paginationjs-page"}, <<Anchor(NoAttr, <<"1">>)>>)>>)>>

\* BeautifulSoup("\n".join(all_page_sources), 'html.parser')
Soup(pages) ==
    [tag |-> "[document]", cls |-> {}, href |-> NoAttr, text |-> <<>>,
     kids |-> Flatten(Map(pages, RenderPage))]

\* the item with the blocks of one field in markup variant v
WithVariant(it, field, v) ==
    LET col(c) == [v |-> v, spans |-> Map(c.spans, LAMBDA sp : [sp EXCEPT !.v = v])]
    IN  CASE field = "container" -> [it EXCEPT !.cont = v]
          [] field = "title"  -> [it EXCEPT !.hdr = Map(@, LAMBDA h : [h EXCEPT !.v = v])]
          [] field = "dates"  ->
               [it EXCEPT !.fechas = Map(@, LAMBDA f :
                    [v |-> v, pub |-> Map(f.pub, col), cie |-> Map(f.cie, col)])]
          [] field = "status" -> [it EXCEPT !.est = Map(@, LAMBDA e : [e EXCEPT !.v = v])]
          [] field = "comments" ->
               [it EXCEPT !.com = Map(@, LAMBDA c :
                    [v |-> v, nums |-> Map(c.nums, LAMBDA n : [n EXCEPT !.v = v])])]

PagesWithVariant(pages, field, v) ==
    Map(pages, LAMBDA pg : Map(pg, LAMBDA it : WithVariant(it, field, v)))

(* Sample texts *)
Date1 == <<"0", "5", "/", "0", "3", "/", "2", "0", "2", "4">>
Date2 == <<"2", "0", "/", "0", "4", "/", "2", "0", "2", "4">>
Activa == <<"A", "c", "t", "i", "v", "a">>
Cerrada == <<"C", "e", "r", "r", "a", "d", "a">>
TitleA == <<" ", "A", "\n">>
TitleB == <<"B">>
Url1 == "/proceso/1"
Url2 == "/proceso/2"

\* an item with every block present, in the primary variant
BaseItem(href, title, count) ==
    [cont   |-> "P",
     hdr    |-> << [v |-> "P", links |-> << [href |-> href, title |-> title] >>] >>,
     fechas |-> << [v |-> "P",
                    pub |-> << [v |-> "P", spans |-> << [v |-> "P", txt |-> Date1] >>] >>,
                    cie |-> << [v |-> "P", spans |-> << [v |-> "P", txt |-> Date2] >>] >>] >>,
     est    |-> << [v |-> "P", inner |-> << Activa >>] >>,
     com    |-> << [v |-> "P", nums |-> << [v |-> "P", txt |-> count] >>] >>]

Item1 == BaseItem(Url1, TitleA, <<"3">>)
Item2 == BaseItem(Url2, TitleB, <<"1", "2">>)
Item1b == BaseItem(Url1, TitleB, <<"7">>)

RECURSIVE AllSecondary(_, _)
AllSecondary(it, fields) ==
    IF fields = {} THEN it
    ELSE LET f == CHOOSE x \in fields : TRUE
         IN  AllSecondary(WithVariant(it, f, "S"), fields \ {f})

\* no identity: no title block, no anchor, no href attribute, an empty href
ItemNoHeader == [Item2 EXCEPT !.hdr = <<>>]
ItemNoLink == [Item2 EXCEPT !.hdr[1].links = <<>>]
ItemNoHref == [Item2 EXCEPT !.hdr[1].links[1].href = NoAttr]
ItemEmptyHref == [Item2 EXCEPT !.hdr[1].links[1].href = ""]

\* a missing date, status or comment-count block
ItemNoDates == [Item2 EXCEPT !.fechas = <<>>]
ItemNoStatus == [Item2 EXCEPT !.est = <<>>]
ItemNoCount == [Item2 EXCEPT !.com = <<>>]

\* the blocks are there, their value nodes are not
ItemHollow ==
    [Item2 EXCEPT !.fechas[1].pub = <<>>, !.fechas[1].cie[1].spans = <<>>,
                  !.est[1].inner = <<>>, !.com[1].nums = <<>>]

\* every field twice: a primary block without its value node, then a
\* secondary block that has one
ItemTwoBlocks ==
    [Item2 EXCEPT
       !.fechas = << [v |-> "P", pub |-> <<>>,
                      cie |-> << [v |-> "P", spans |-> <<>>] >>],
                     [v |-> "S",
                      pub |-> << [v |-> "S", spans |-> << [v |-> "S", txt |-> Date1] >>] >>,
                      cie |-> << [v |-> "S", spans |-> << [v |-> "S", txt |-> Date2] >>] >>] >>,
       !.est    = << [v |-> "P", inner |-> <<>>], [v |-> "S", inner |-> << Cerrada >>] >>,
       !.com    = << [v |-> "P", nums |-> <<>>],
                     [v |-> "S", nums |-> << [v |-> "S", txt |-> <<"9">>] >>] >>]

\* a count that is no number, and a negative one
ItemAbc == [Item1 EXCEPT !.com[1].nums[1].txt = <<"a", "b", "c">>]
ItemNegative == [Item2 EXCEPT !.com[1].nums[1].txt = <<" ", "-", "5">>]

\* the items the pages are made of
ItemPool ==
    { Item1, Item2, Item1b, AllSecondary(Item1, Fields),
      ItemNoHeader, ItemNoLink, ItemNoHref, ItemEmptyHref,
      ItemNoDates, ItemNoStatus, ItemNoCount, ItemHollow, ItemTwoBlocks,
      ItemAbc, ItemNegative }

SeqsUpTo(S, n) == UNION { [1..k -> S] : k \in 0..n }

----------------------------------------------------------------------------
(* Calls of parse_normativa on the joined page sources *)

InitParse ==
    \* all items on one page, or the first one on page 1 and the others on
    \* page 2
    /\ \E items \in SeqsUpTo(ItemPool, MaxItems) :
         \/ content = <<items>>
         \/ /\ Len(items) >= 2
            /\ content = <<SubSeq(items, 1, 1), SubSeq(items, 2, Len(items))>>
    /\ ppc = "ready"
    /\ out1 = <<>>
    /\ out2 = <<>>
    /\ outTwice = <<>>
    /\ outVariant = <<>>
    \* no get_page_content call in this specification
    /\ site = <<>>
    /\ pc = "idle"
    /\ attempt = 0
    /\ calls = 0
    /\ sleeps = 0
    /\ errs = <<>>
    /\ current_page = 0
    /\ shown = 0
    /\ all_page_sources = <<>>
    /\ visited = <<>>
    /\ fault = "none"
    /\ faulted = FALSE
    /\ endReason = "none"
    /\ retryOutcome = NoOutcome
    /\ result = NoOutcome
    /\ NormIdle
    /\ RunIdle

\* normativas = self.parse_normativa(content)
ParseContent ==
    /\ ppc = "ready"
    /\ out1' = parse_normativa(Soup(content))
    /\ ppc' = "parsed"
    /\ UNCHANGED <<content, out2, outTwice, outVariant>>
    /\ UNCHANGED nonParseVars

\* a second call on the same html
ParseAgain ==
    /\ ppc = "parsed"
    /\ out2' = parse_normativa(Soup(content))
    /\ ppc' = "reparsed"
    /\ UNCHANGED <<content, out1, outTwice, outVariant>>
    /\ UNCHANGED nonParseVars

\* a call on the same page sources accumulated twice
ParseRepeated ==
    /\ ppc = "reparsed"
    /\ outTwice' = parse_normativa(Soup(content \o content))
    /\ ppc' = "repeated"
    /\ UNCHANGED <<content, out1, out2, outVariant>>
    /\ UNCHANGED nonParseVars

\* calls on the same content rendered with one field in the primary
\* variant and with that field in the secondary variant
ParseVariants ==
    /\ ppc = "repeated"
    /\ \E f \in Fields :
         outVariant' =
            [field     |-> f,
             primary   |-> parse_normativa(Soup(PagesWithVariant(content, f, "P"))),
             secondary |-> parse_normativa(Soup(PagesWithVariant(content, f, "S")))]
    /\ ppc' = "variants"
    /\ UNCHANGED <<content, out1, out2, outTwice>>
    /\ UNCHANGED nonParseVars

NextParse ==
    \/ ParseContent
    \/ ParseAgain
    \/ ParseRepeated
    \/ ParseVariants

SpecParse == InitParse /\ [][NextParse]_vars

----------------------------------------------------------------------------
(* Dates: strptime with the format '%d/%m/%Y' *)

IsLeap(y) == (y % 4 = 0 /\ y % 100 # 0) \/ y % 400 = 0

DaysIn(m, y) ==
    IF m = 2 THEN (IF IsLeap(y) THEN 29 ELSE 28)
    ELSE IF m \in {4, 6, 9, 11} THEN 30 ELSE 31

AllDigits(cs) == \A i \in 1..Len(cs) : cs[i] \in Digits

NoDate == [ok |-> FALSE, y |-> 0, m |-> 0, d |-> 0]

\* mutant: the format is read as '%m/%d/%Y'
strptime_month_first(text) ==
    LET slashes == { i \in 1..Len(text) : text[i] = "/" }
    IN  IF Cardinality(slashes) # 2 THEN NoDate
        ELSE
          LET i1 == Min(slashes)
              i2 == Max(slashes)
              mm == SubSeq(text, 1, i1 - 1)
              dd == SubSeq(text, i1 + 1, i2 - 1)
              yy == SubSeq(text, i2 + 1, Len(text))
          IN  IF /\ Len(dd) \in {1, 2} /\ Len(mm) \in {1, 2} /\ Len(yy) = 4
                 /\ AllDigits(dd) /\ AllDigits(mm) /\ AllDigits(yy)
              THEN LET d == DigitsValue(dd, 0)
                       m == DigitsValue(mm, 0)
                       y == DigitsValue(yy, 0)
                   IN  IF m \in 1..12 /\ y >= 1 /\ d >= 1 /\ d <= DaysIn(m, y)
                       THEN [ok |-> TRUE, y |-> y, m |-> m, d |-> d]
                       ELSE NoDate
              ELSE NoDate

\* strptime(text, '%d/%m/%Y'):
\* one or two digits for the day, "/", one or two digits for the month,
\* "/", four digits for the year, nothing before, after or in between;
\* the day has to exist in that month.  Anything else is an error.
strptime(text) ==
    LET slashes == { i \in 1..Len(text) : text[i] = "/" }
    IN  IF Cardinality(slashes) # 2 THEN NoDate
        ELSE
          LET i1 == Min(slashes)
              i2 == Max(slashes)
              dd == SubSeq(text, 1, i1 - 1)
              mm == SubSeq(text, i1 + 1, i2 - 1)
              yy == SubSeq(text, i2 + 1, Len(text))
          IN  IF /\ Len(dd) \in {1, 2} /\ Len(mm) \in {1, 2} /\ Len(yy) = 4
                 /\ AllDigits(dd) /\ AllDigits(mm) /\ AllDigits(yy)
              THEN LET d == DigitsValue(dd, 0)
                       m == DigitsValue(mm, 0)
                       y == DigitsValue(yy, 0)
                   IN  IF m \in 1..12 /\ y >= 1 /\ d >= 1 /\ d <= DaysIn(m, y)
                       THEN [ok |-> TRUE, y |-> y, m |-> m, d |-> d]
                       ELSE NoDate
              ELSE NoDate

\* mutant: the dates are compared field by field as they are written
later_than_as_written(a, b) ==
    \/ a.d > b.d
    \/ a.d = b.d /\ a.m > b.m
    \/ a.d = b.d /\ a.m = b.m /\ a.y > b.y

\* datetime > datetime
later_than(a, b) ==
    \/ a.y > b.y
    \/ a.y = b.y /\ a.m > b.m
    \/ a.y = b.y /\ a.m = b.m /\ a.d > b.d

DigitChars == <<"0", "1", "2", "3", "4", "5", "6", "7", "8", "9">>

\* the decimal digits of n in a field of w characters filled with zeros
RECURSIVE zero_padded(_, _)
zero_padded(n, w) ==
    IF w = 0 THEN <<>>
    ELSE zero_padded(n \div 10, w - 1) \o <<DigitChars[(n % 10) + 1]>>

\* the formats the program uses, as lists of directives and literal
\* characters
FormatDmy == <<"%d", "/", "%m", "/", "%Y">>
FormatIso == <<"%Y", "-", "%m", "-", "%d">>

\* date.strftime(fmt) of a date whose year has four digits: %d and %m are
\* two digits, %Y is the year, every other character stands for itself
strftime(date, fmt) ==
    Flatten([i \in 1..Len(fmt) |->
                IF fmt[i] = "%d" THEN zero_padded(date.d, 2)
                ELSE IF fmt[i] = "%m" THEN zero_padded(date.m, 2)
                ELSE IF fmt[i] = "%Y" THEN zero_padded(date.y, 4)
                ELSE <<fmt[i]>>])

\* the days of the years before year y, then those of the months before
\* month m, then the day: date.toordinal()
toordinal(date) ==
    LET y  == date.y - 1
        RECURSIVE before(_)
        before(m) == IF m = 1 THEN 0 ELSE before(m - 1) + DaysIn(m - 1, date.y)
    IN  365 * y + (y \div 4) - (y \div 100) + (y \div 400) + before(date.m) + date.d

\* (a - b).days
days_between(a, b) == toordinal(a) - toordinal(b)

----------------------------------------------------------------------------
(* transform_data and json_to_csv *)

\* str.replace_all(r'\s+', ' '): every run of whitespace becomes one space
RECURSIVE replace_all_ws(_)
replace_all_ws(cs) ==
    IF cs = <<>> THEN <<>>
    ELSE IF Head(cs) \in Whitespace
         THEN <<" ">> \o replace_all_ws(lstrip(cs))
         ELSE <<Head(cs)>> \o replace_all_ws(Tail(cs))

Int32Min == (0 - 2147483647) - 1
Int32Max == 2147483647

\* cast(pl.Int32) of an integer column is strict: a value out of range
\* raises; fill_null(0) changes no integer
cast_int32(v) ==
    IF v >= Int32Min /\ v <= Int32Max THEN [ok |-> TRUE, val |-> v]
    ELSE [ok |-> FALSE, val |-> 0]

\* both date texts of the record are dates
parsable(n) == strptime(n.fecha_publicacion).ok /\ strptime(n.fecha_cierre).ok

\* mutant: the rows whose date text is no date are left out
strptime_column_lenient(rows) ==
    [raised |-> FALSE, rows |-> SelectSeq(rows, parsable)]

\* str.strptime(pl.Date, '%d/%m/%Y') is strict: one text of the column that
\* is no date raises for the whole expression
strptime_column(rows) ==
    [raised |-> \E i \in 1..Len(rows) : ~parsable(rows[i]), rows |-> rows]

\* mutant: datetime.now() is read again for every record
per_record_stamp(t, i) == t + i

\* pl.lit(datetime.now()): one value, read once, for the whole column
fecha_extraccion(t, i) == t

Entidad == "Ministerio de Agricultura y Desarrollo Rural"
Sector == "Agropecuario"

Frame(rows) == [kind |-> "frame", rows |-> rows]

\* the row with_columns + select make of record n, row number i
normalized(n, t, i) ==
    [titulo            |-> replace_all_ws(strip(n.titulo)),
     url               |-> n.url,
     fecha_publicacion |-> strptime(n.fecha_publicacion),
     fecha_cierre      |-> strptime(n.fecha_cierre),
     estado            |-> n.estado,
     comentarios       |-> cast_int32(n.comentarios).val,
     entidad           |-> Entidad,
     sector            |-> Sector,
     fecha_extraccion  |-> fecha_extraccion(t, i)]

\* transform_data(normativas) at clock value t: None for an empty list and
\* for any exception, else the frame
transform_data(rows, t) ==
    IF rows = <<>> THEN NoneValue
    ELSE LET col == strptime_column(rows)
         IN  IF col.raised \/ \E i \in 1..Len(rows) : ~cast_int32(rows[i].comentarios).ok
             THEN NoneValue
             ELSE Frame([i \in 1..Len(col.rows) |-> normalized(col.rows[i], t, i)])

\* the dates of a column that no other date of the column precedes / follows
column_min(ds) == CHOOSE d \in ds : \A e \in ds : ~later_than(d, e)
column_max(ds) == CHOOSE d \in ds : \A e \in ds : ~later_than(e, d)

RECURSIVE column_sum(_)
column_sum(vs) == IF vs = <<>> THEN 0 ELSE Head(vs) + column_sum(Tail(vs))

\* save_to_csv's `stats`: the number of rows, the number of rows of each
\* estado (group_by gives the groups in no fixed order: a function of the
\* estado), the mean of comentarios as the pair sum / number of rows, and
\* the first and last fecha_publicacion as '%Y-%m-%d' texts
statistics(rows) ==
    LET pubs == { rows[i].fecha_publicacion : i \in 1..Len(rows) }
    IN  [total_normativas      |-> Len(rows),
         normativas_por_estado |->
             [e \in { rows[i].estado : i \in 1..Len(rows) } |->
                 Cardinality({ i \in 1..Len(rows) : rows[i].estado = e })],
         promedio_comentarios  |->
             [sum |-> column_sum([i \in 1..Len(rows) |-> rows[i].comentarios]),
              n   |-> Len(rows)],
         rango_fechas          |->
             [min |-> strftime(column_min(pubs), FormatIso),
              max |-> strftime(column_max(pubs), FormatIso)]]

\* df.write_csv(filename), then the statistics file: the csv holds the rows
\* of the frame
written_csv(df) ==
    [kind |-> "written", rows |-> df.rows, stats |-> statistics(df.rows)]

(* The json file *)

\* json.dump of one record: an object whose members are written in the
\* order of the dict's keys, the texts as strings, the count as a number
json_object(n) ==
    << <<"titulo",            [string |-> n.titulo]>>,
       <<"url",               [string |-> n.url]>>,
       <<"fecha_publicacion", [string |-> n.fecha_publicacion]>>,
       <<"fecha_cierre",      [string |-> n.fecha_cierre]>>,
       <<"estado",            [string |-> n.estado]>>,
       <<"comentarios",       [number |-> n.comentarios]>> >>

\* json.dump(data, f, ensure_ascii=False, indent=2): an array of objects
json_dump(data) == [i \in 1..Len(data) |-> json_object(data[i])]

\* the python value of a json string or number
json_value(v) == IF "string" \in DOMAIN v THEN v.string ELSE v.number

\* json.load of one object: a dict that maps each member name to the value
\* of the last member with that name
json_dict(obj) ==
    [k \in { obj[i][1] : i \in 1..Len(obj) } |->
        json_value(obj[Max({ i \in 1..Len(obj) : obj[i][1] = k })][2])]

\* json.load(f)
json_load(array) == [i \in 1..Len(array) |-> json_dict(array[i])]

(* json_to_csv *)

\* mutant: the title is taken as the file has it
json_normalized_raw_title(n, t) ==
    [titulo            |-> n.titulo,
     url               |-> n.url,
     fecha_publicacion |-> strptime(n.fecha_publicacion),
     fecha_cierre      |-> strptime(n.fecha_cierre),
     estado            |-> n.estado,
     comentarios       |-> cast_int32(n.comentarios).val,
     entidad           |-> Entidad,
     sector            |-> Sector,
     fecha_extraccion  |-> t]

\* json_to_csv: the row its with_columns + select make of record n
json_normalized(n, t) ==
    [titulo            |-> replace_all_ws(strip(n.titulo)),
     url               |-> n.url,
     fecha_publicacion |-> strptime(n.fecha_publicacion),
     fecha_cierre      |-> strptime(n.fecha_cierre),
     estado            |-> n.estado,
     comentarios       |-> cast_int32(n.comentarios).val,
     entidad           |-> Entidad,
     sector            |-> Sector,
     fecha_extraccion  |-> t]

\* json_to_csv: its `stats`
json_statistics(rows) ==
    LET pubs == { rows[i].fecha_publicacion : i \in 1..Len(rows) }
    IN  [total_normativas      |-> Len(rows),
         normativas_por_estado |->
             [e \in { rows[i].estado : i \in 1..Len(rows) } |->
                 Cardinality({ i \in 1..Len(rows) : rows[i].estado = e })],
         promedio_comentarios  |->
             [sum |-> column_sum([i \in 1..Len(rows) |-> rows[i].comentarios]),
              n   |-> Len(rows)],
         rango_fechas          |->
             [min |-> strftime(column_min(pubs), FormatIso),
              max |-> strftime(column_max(pubs), FormatIso)]]

\* json_to_csv(json_file, csv_file) at clock value t on a file that holds
\* `array`: no csv for an empty list and for any exception, else the csv
\* and the statistics
json_to_csv(array, t) ==
    LET normativas == json_load(array)
    IN  IF normativas = <<>> THEN NoFile
        ELSE IF \E i \in 1..Len(normativas) :
                   \/ ~strptime(normativas[i].fecha_publicacion).ok
                   \/ ~strptime(normativas[i].fecha_cierre).ok
                   \/ ~cast_int32(normativas[i].comentarios).ok
             THEN NoFile
             ELSE LET rows == [i \in 1..Len(normativas) |->
                                  json_normalized(normativas[i], t)]
                  IN  [kind  |-> "written",
                       rows  |-> rows,
                       stats |-> json_statistics(rows)]

(* Record lists for the normalization *)

\* the normalization handles lists of at most MaxRecords records
MaxRecords == 2

DateIso == <<"2", "0", "2", "4", "-", "0", "3", "-", "0", "5">>
DateJune == <<"0", "1", "/", "0", "6", "/", "2", "0", "2", "4">>
DateLeap == <<"2", "9", "/", "0", "2", "/", "2", "0", "2", "4">>
DateNoSuchDay == <<"3", "1", "/", "0", "2", "/", "2", "0", "2", "4">>
TitleSpaced == <<" ", "A", " ", "\t", "B", " ">>
Url3 == "/proceso/3"

Raw(titulo, url, pub, cie, count) ==
    [titulo |-> titulo, url |-> url, fecha_publicacion |-> pub,
     fecha_cierre |-> cie, estado |-> Activa, comentarios |-> count]

\* records as parse_normativa builds them and as a json file may hold them
RawPool ==
    { Raw(<<"A">>, Url1, Date1, Date2, 3),
      [Raw(<<"B">>, Url2, Date1, Date2, 12) EXCEPT !.estado = Cerrada],
      Raw(<<"B">>, Url1, DateLeap, Date2, 7),       \* Url1 again
      Raw(TitleSpaced, Url3, Date2, Date1, 0),      \* closes before it opens
      Raw(<<"B">>, Url2, <<>>, <<>>, 1),            \* the dates are missing
      Raw(<<"A">>, Url3, DateIso, Date2, 1),        \* another date format
      Raw(<<"A">>, Url3, Date1, DateNoSuchDay, 1),  \* 31 February
      Raw(<<"B">>, Url3, Date1, DateJune, 0 - 5) }  \* a negative count

InitNormalize ==
    /\ rawIn \in SeqsUpTo(RawPool, MaxRecords)
    /\ now \in 1..2
    /\ npc = "ready"
    /\ frame = NoOutcome
    /\ csvOut = NoFile
    /\ fact = NoOutcome
    \* no get_page_content, parse_normativa or run in this specification
    /\ site = <<>>
    /\ pc = "idle"
    /\ attempt = 0
    /\ calls = 0
    /\ sleeps = 0
    /\ errs = <<>>
    /\ current_page = 0
    /\ shown = 0
    /\ all_page_sources = <<>>
    /\ visited = <<>>
    /\ fault = "none"
    /\ faulted = FALSE
    /\ endReason = "none"
    /\ retryOutcome = NoOutcome
    /\ result = NoOutcome
    /\ content = <<>>
    /\ ppc = "idle"
    /\ out1 = <<>>
    /\ out2 = <<>>
    /\ outTwice = <<>>
    /\ outVariant = <<>>
    /\ RunIdle

\* df = self.transform_data(data)
TransformData ==
    /\ npc = "ready"
    /\ frame' = transform_data(rawIn, now)
    /\ now' = now + 1
    /\ npc' = "transformed"
    /\ UNCHANGED <<rawIn, csvOut, fact>>
    /\ UNCHANGED nonNormVars

\* SUCOPCrawler.json_to_csv() on a json file that holds rawIn
JsonToCsv ==
    /\ npc = "transformed"
    /\ csvOut' = json_to_csv(json_dump(rawIn), now)
    /\ now' = now + 1
    /\ npc' = "converted"
    /\ UNCHANGED <<rawIn, frame, fact>>
    /\ UNCHANGED nonNormVars

(* generate_powerbi_data.py on the json file *)

\* the characters of the model's texts in the order of their code points
Alphabet ==
    <<"\t", "\n", " ", "-", "/", "0", "1", "2", "3", "4", "5", "6", "7", "8",
      "9", "A", "B", "C", "F", "a", "c", "d", "e", "i", "l", "n", "r", "t",
      "v", "z">>

ord(c) == CHOOSE i \in 1..Len(Alphabet) : Alphabet[i] = c

\* a < b for two texts
RECURSIVE str_less(_, _)
str_less(a, b) ==
    IF b = <<>> THEN FALSE
    ELSE IF a = <<>> THEN TRUE
    ELSE IF Head(a) = Head(b) THEN str_less(Tail(a), Tail(b))
    ELSE ord(Head(a)) < ord(Head(b))

\* the place of x in sorted(S), counted from 1
sorted_place(x, S) == 1 + Cardinality({ y \in S : str_less(y, x) })

\* the process has at most MaxHashes different values of hash()
MaxHashes == 3

\* `10**8`
id_modulus == 100000000

\* values hash() may give for a text: integers of either sign (the hash of
\* a str depends on the text and on the seed of the process), among them
\* values that differ by a multiple of 10**8
hash_value(k) ==
    IF k % 2 = 1 THEN 7 + (k \div 2) * id_modulus
    ELSE 12 - (k \div 2) * id_modulus

HashValues == { hash_value(k) : k \in 1..MaxHashes }

\* the hash functions a process may have on the urls of the records: one
\* value per text
Hashes(normativas) ==
    [{ normativas[i].url : i \in 1..Len(normativas) } -> HashValues]

\* `x % m` for m > 0: the remainder has the sign of m
py_mod(x, m) == x % m

\* hash(n['url']) % 10**8
id_normativa(h, url) == py_mod(h[url], id_modulus)

\* create_dimension_tables(normativas): the estados and the date texts,
\* each numbered in sorted order; a date text that is no date raises
create_dimension_tables(normativas) ==
    LET idx     == 1..Len(normativas)
        estados == { normativas[i].estado : i \in idx }
        fechas  == { normativas[i].fecha_publicacion : i \in idx }
                       \cup { normativas[i].fecha_cierre : i \in idx }
    IN  IF \E f \in fechas : ~strptime(f).ok
        THEN [raised |-> TRUE]
        ELSE [raised     |-> FALSE,
              estados    |-> [e \in estados |-> sorted_place(e, estados)],
              dim_tiempo |-> [f \in fechas |->
                                 [fecha_id  |-> sorted_place(f, fechas),
                                  anio      |-> strptime(f).y,
                                  mes       |-> strptime(f).m,
                                  trimestre |-> ((strptime(f).m - 1) \div 3) + 1]]]

\* mutant: the length of the consultation without its sign
dias_consulta_unsigned(cierre, publicacion) ==
    IF days_between(cierre, publicacion) < 0
    THEN 0 - days_between(cierre, publicacion)
    ELSE days_between(cierre, publicacion)

\* (strptime(fecha_cierre) - strptime(fecha_publicacion)).days
dias_consulta(cierre, publicacion) == days_between(cierre, publicacion)

\* create_fact_table(normativas, estados, dim_tiempo), h the hash of this
\* process
create_fact_table(normativas, estados, dim_tiempo, h) ==
    [i \in 1..Len(normativas) |->
        LET n == normativas[i]
        IN  [id_normativa         |-> id_normativa(h, n.url),
             titulo               |-> n.titulo,
             url                  |-> n.url,
             id_estado            |-> estados[n.estado],
             id_fecha_publicacion |-> dim_tiempo[n.fecha_publicacion].fecha_id,
             id_fecha_cierre      |-> dim_tiempo[n.fecha_cierre].fecha_id,
             id_entidad           |-> 1,
             num_comentarios      |-> n.comentarios,
             dias_consulta        |-> dias_consulta(strptime(n.fecha_cierre),
                                                    strptime(n.fecha_publicacion))]]

\* generate_powerbi_file up to the fact table: any exception ends it
fact_table(array, h) ==
    LET normativas == json_load(array)
        dims       == create_dimension_tables(normativas)
    IN  IF dims.raised THEN [kind |-> "error"]
        ELSE Frame(create_fact_table(normativas, dims.estados, dims.dim_tiempo, h))

\* generate_powerbi_file() on a json file that holds rawIn
CreateFactTable ==
    /\ npc = "converted"
    /\ \E h \in Hashes(rawIn) :
          fact' = fact_table(json_dump(rawIn), h)
    /\ npc' = "facts"
    /\ UNCHANGED <<rawIn, now, frame, csvOut>>
    /\ UNCHANGED nonNormVars

NextNormalize ==
    \/ TransformData
    \/ JsonToCsv
    \/ CreateFactTable

SpecNormalize == InitNormalize /\ [][NextNormalize]_vars

----------------------------------------------------------------------------
(* __init__ and run *)

\* the listings of a run have at most MaxRunPage result pages
MaxRunPage == 2

\* listings whose page n shows the control of page n + 1, the last page none
RunSites ==
    { s \in Sites : /\ Len(s) <= MaxRunPage
                    /\ \A n \in 1..Len(s) :
                          s[n].controls = (IF n < Len(s) THEN {n + 1} ELSE {}) }

ItemUndated == [ItemNoDates EXCEPT !.hdr[1].links[1].href = Url3]

\* the item containers of page p, in the order they are shown
RunItems(cat, p) ==
    IF cat = "clean"
    THEN (IF p % 2 = 1 THEN <<Item1, Item2, ItemAbc>> ELSE <<Item2, Item1b, Item1>>)
    ELSE (IF p % 2 = 1 THEN <<ItemNegative, ItemAbc, Item1>>
                       ELSE <<ItemUndated, Item1, Item2>>)

\* driver.page_source of page p of listing s
RunPage(cat, s, p) ==
    SubSeq(RunItems(cat, p), 1, Min({s[p].nitems, Len(RunItems(cat, p))}))

\* the pages whose sources were joined into `content`
RunPages(cat, s, srcs) == [i \in 1..Len(srcs) |-> RunPage(cat, s, srcs[i])]

\* the arguments the crawler is constructed with (the crawler without
\* filters is the one of SpecCrawl)
FilterConfigs ==
    { [estado |-> "Activa", tipo_documento |-> "Ley",
       fecha_inicio |-> Date1, fecha_fin |-> Date2],
      \* start later than end
      [estado |-> "", tipo_documento |-> "Ley",
       fecha_inicio |-> DateJune, fecha_fin |-> Date1],
      \* a start that is no date
      [estado |-> "", tipo_documento |-> "",
       fecha_inicio |-> DateIso, fecha_fin |-> Date2] }

\* the values the class offers for the two choice filters (the accents of
\* "Instrucción" and "Resolución" are left out)
ESTADOS_VALIDOS == <<"Activa", "Cerrada", "Finalizada">>
TIPOS_DOCUMENTO ==
    <<"AIN", "Acuerdo", "Agenda regulatoria", "Auto", "CONPES", "Circular",
      "Concepto", "Decreto", "Directiva Presidencial", "Edicto", "Instruccion",
      "Ley", "Oficio", "Ordenanza", "Otro", "Problema AIN", "Resolucion">>

\* arguments a caller of the constructor may pass that are in neither list
OutsideConfigs ==
    { [estado |-> "Borrador", tipo_documento |-> "Memorando",
       fecha_inicio |-> <<>>, fecha_fin |-> <<>>] }

\* __init__: `if fecha_inicio and fecha_fin:` both are parsed, a text that
\* is no date raises ValueError, and so does a start later than the end
dates_rejected(f) ==
    /\ f.fecha_inicio # <<>>
    /\ f.fecha_fin # <<>>
    /\ LET inicio == strptime(f.fecha_inicio)
           fin    == strptime(f.fecha_fin)
       IN  \/ ~inicio.ok
           \/ ~fin.ok
           \/ later_than(inicio, fin)

\* SUCOPCrawler(estado, tipo_documento, fecha_inicio, fecha_fin): the dates
\* are checked, then setup_logging and setup_driver run; setup_driver raises
\* when the browser cannot be started
Construct ==
    /\ rpc = "new"
    /\ IF dates_rejected(filters)
       THEN /\ rpc' = "ctor_raised"
            /\ UNCHANGED driver
       ELSE \E started \in BOOLEAN :
              IF started
              THEN rpc' = "constructed" /\ driver' = "open"
              ELSE rpc' = "ctor_raised" /\ UNCHANGED driver
    /\ UNCHANGED <<filters, catalog, quits, runNormativas, parsed, json_file,
                   csv_file, finished, reported, runOutcome,
                   filterLog>>
    /\ UNCHANGED <<crawlVars, parseVars, normVars, prompt>>

\* run: content = self.get_page_content(self.base_url)
RunStart ==
    /\ rpc = "constructed"
    /\ pc = "idle"
    /\ rpc' = "crawl"
    /\ pc' = "start"
    /\ UNCHANGED <<site, attempt, calls, sleeps, errs, current_page, shown,
                   all_page_sources, visited, fault, faulted, endReason,
                   retryOutcome, result>>
    /\ UNCHANGED <<filters, catalog, driver, quits, runNormativas, parsed,
                   json_file, csv_file, finished, reported, runOutcome,
                   filterLog>>
    /\ UNCHANGED <<parseVars, normVars, prompt>>

\* mutant: only the empty string counts as no content
not_content_when_empty(c) == c.kind = "content" /\ c.pages = <<>>

\* `if not content`: None, and the empty string that joining no page source
\* gives
not_content(c) == c.kind = "None" \/ (c.kind = "content" /\ c.pages = <<>>)

\* run: get_page_content returned; without content run logs the error
\* "No se pudo obtener el contenido de la página" and returns
RunContent ==
    /\ rpc = "crawl"
    /\ pc \in {"returned", "failed"}
    /\ rpc' = IF not_content(result) THEN "finally" ELSE "parse"
    /\ reported' = IF not_content(result) THEN "no_content" ELSE reported
    /\ UNCHANGED <<filters, catalog, driver, quits, runNormativas, parsed,
                   json_file, csv_file, finished, runOutcome, filterLog>>
    /\ UNCHANGED <<crawlVars, parseVars, normVars, prompt>>

\* self.parse_normativa(content) on the joined sources of the kept pages.
\* BeautifulSoup(None) raises inside parse_normativa's try, which then
\* returns its empty list.
parse_content(cat, s, c) ==
    IF c.kind = "content"
    THEN parse_normativa(Soup(RunPages(cat, s, c.pages)))
    ELSE <<>>

\* run: normativas = self.parse_normativa(content); without records run
\* logs the warning "No se encontraron normativas para procesar" and returns
RunParse ==
    /\ rpc = "parse"
    /\ runNormativas' = parse_content(catalog, site, result)
    /\ rpc' = IF runNormativas' = <<>> THEN "finally" ELSE "save_json"
    /\ parsed' = TRUE
    /\ reported' = IF runNormativas' = <<>> THEN "no_records" ELSE reported
    /\ UNCHANGED <<filters, catalog, driver, quits, json_file, csv_file,
                   finished, runOutcome, filterLog>>
    /\ UNCHANGED <<crawlVars, parseVars, normVars, prompt>>

\* mutant: only the records that can be normalized are dumped
written_json_parsable(data) ==
    [kind |-> "written", rows |-> json_dump(SelectSeq(data, parsable))]

\* save_to_json(data): the file holds json.dump(data)
written_json(data) == [kind |-> "written", rows |-> json_dump(data)]

\* run: self.save_to_json(normativas); the file system takes the write
RunSaveJson ==
    /\ rpc = "save_json"
    /\ json_file' = written_json(runNormativas)
    /\ rpc' = "save_csv"
    /\ UNCHANGED <<filters, catalog, driver, quits, runNormativas, parsed,
                   csv_file, finished, reported, runOutcome,
                   filterLog>>
    /\ UNCHANGED <<crawlVars, parseVars, normVars, prompt>>

\* save_to_csv(data) at clock value t: no file when transform_data gave
\* None
save_to_csv(data, t) ==
    LET df == transform_data(data, t)
    IN  IF df.kind = "None" THEN NoFile ELSE written_csv(df)

\* run: self.save_to_csv(normativas), then the log line
\* "Crawler finalizado"
RunSaveCsv ==
    /\ rpc = "save_csv"
    /\ csv_file' = save_to_csv(runNormativas, now)
    /\ now' = now + 1
    /\ finished' = TRUE
    /\ reported' = "finished"
    /\ rpc' = "finally"
    /\ UNCHANGED <<filters, catalog, driver, quits, runNormativas, parsed,
                   json_file, runOutcome, filterLog>>
    /\ UNCHANGED <<rawIn, npc, frame, csvOut, fact>>
    /\ UNCHANGED <<crawlVars, parseVars, prompt>>

\* an exception that no handler of run's steps catches (KeyboardInterrupt
\* while retry_with_delay waits, or between two steps of run)
Interrupt ==
    /\ rpc \in {"crawl", "parse", "save_json", "save_csv"}
    /\ rpc = "crawl" => pc \in {"call", "sleep"}
    /\ rpc' = "finally_exc"
    /\ pc' = IF rpc = "crawl" THEN "interrupted" ELSE pc
    /\ UNCHANGED <<site, attempt, calls, sleeps, errs, current_page, shown,
                   all_page_sources, visited, fault, faulted, endReason,
                   retryOutcome, result>>
    /\ UNCHANGED <<filters, catalog, driver, quits, runNormativas, parsed,
                   json_file, csv_file, finished, reported, runOutcome,
                   filterLog>>
    /\ UNCHANGED <<parseVars, normVars, prompt>>

\* mutant: driver.quit() is the last statement of the try block
quit_after_last_statement(fin, exc) == fin /\ ~exc

\* `finally: self.driver.quit()` runs on return and on exception
quit_in_finally(fin, exc) == TRUE

\* run: the finally clause, then run returns or the exception goes on
RunFinally ==
    /\ rpc \in {"finally", "finally_exc"}
    /\ IF quit_in_finally(finished, rpc = "finally_exc")
       THEN driver' = "quit" /\ quits' = quits + 1
       ELSE UNCHANGED <<driver, quits>>
    /\ runOutcome' = IF rpc = "finally_exc" THEN "raised" ELSE "returned"
    /\ rpc' = "done"
    /\ UNCHANGED <<filters, catalog, runNormativas, parsed, json_file, csv_file,
                   finished, reported, filterLog>>
    /\ UNCHANGED <<crawlVars, parseVars, normVars, prompt>>

InitRun ==
    /\ \/ /\ filters \in FilterConfigs
          /\ site \in RunSites
          /\ catalog \in {"clean", "dirty"}
       \/ /\ filters \in OutsideConfigs
          /\ site \in { s \in RunSites : Len(s) = 1 }
          /\ catalog = "clean"
    /\ rpc = "new"
    /\ driver = "none"
    /\ quits = 0
    /\ runNormativas = <<>>
    /\ parsed = FALSE
    /\ json_file = NoFile
    /\ csv_file = NoFile
    /\ finished = FALSE
    /\ reported = "none"
    /\ runOutcome = "none"
    /\ prompt = NoPrompt
    /\ filterLog = <<>>
    /\ now = 1
    /\ rawIn = <<>>
    /\ npc = "idle"
    /\ frame = NoOutcome
    /\ csvOut = NoFile
    /\ fact = NoOutcome
    \* get_page_content has not been called
    /\ pc = "idle"
    /\ attempt = 0
    /\ calls = 0
    /\ sleeps = 0
    /\ errs = <<>>
    /\ current_page = 0
    /\ shown = 0
    /\ all_page_sources = <<>>
    /\ visited = <<>>
    /\ fault = "none"
    /\ faulted = FALSE
    /\ endReason = "none"
    /\ retryOutcome = NoOutcome
    /\ result = NoOutcome
    /\ content = <<>>
    /\ ppc = "idle"
    /\ out1 = <<>>
    /\ out2 = <<>>
    /\ outTwice = <<>>
    /\ outVariant = <<>>

NextRun ==
    \/ Construct
    \/ RunStart
    \/ GetPageContent
    \/ Navigate
    \/ SelectSector
    \/ SelectEntity
    \/ ApplyFilters
    \/ Extract
    \/ SeekNext
    \/ ReturnContent
    \/ Sleep
    \/ RetryRaise
    \/ RunContent
    \/ RunParse
    \/ RunSaveJson
    \/ RunSaveCsv
    \/ Interrupt
    \/ RunFinally

SpecRun == InitRun /\ [][NextRun]_vars

----------------------------------------------------------------------------
(* Properties of get_page_content *)

LoopPcs == {"extract", "seek", "break"}
InTraversal == pc \in LoopPcs \/ (pc = "returned" /\ current_page >= 1)

\* C1: retry_with_delay calls func at most 3 times; it returns the value of
\* the first successful call and calls nothing after it; it sleeps only
\* between two attempts, never after the last one; when all 3 calls fail
\* it re-raises the exception of the third call.
C1_RetryContract ==
    /\ calls <= max_retries
    /\ Len(errs) <= calls
    /\ calls - Len(errs) <= 1
    /\ sleeps = IF pc \in {"start", "call"} THEN calls ELSE calls - 1
    /\ pc = "sleep" => calls < max_retries
    /\ retryOutcome.kind = "return" =>
          /\ Len(errs) = calls - 1
          /\ retryOutcome.val = Content(all_page_sources)
          /\ sleeps = calls - 1
    /\ retryOutcome.kind = "raise" =>
          /\ calls = max_retries
          /\ Len(errs) = max_retries
          /\ retryOutcome.exc = errs[max_retries]
          /\ sleeps = max_retries - 1

\* all three calls failed, the third for another reason than the first
C1_Witness ==
    /\ retryOutcome.kind = "raise"
    /\ errs[1] # errs[3]
    /\ retryOutcome.exc = errs[3]

\* C2: when page k shows no control for page k+1 the traversal loop halts
\* after processing page k, whatever number of item containers (zero
\* included) the pages 1..k hold: it never goes past page k, a run without
\* renderer fault ends exactly on page k, and the loop is always left.
C2_TraversalHalts ==
    /\ [](InTraversal => current_page <= LastPage(site))
    /\ []((pc = "break" /\ ~faulted) =>
             (current_page = LastPage(site) /\ endReason = "no_next"))
    /\ ((pc = "extract") ~> (pc = "break"))

\* the loop was left on page 2 of 3, all pages visited being empty
C2_Witness ==
    /\ pc = "break"
    /\ ~faulted
    /\ Len(site) = 3
    /\ LastPage(site) = 2
    /\ current_page = 2
    /\ site[1].nitems = 0
    /\ site[2].nitems = 0

C4_EmptyPageContinues ==
    /\ [][(pc = "extract" /\ site[shown].nitems = 0 /\ fault' = "none")
             => pc' = "seek"]_vars
    /\ [][(pc = "seek" /\ site[shown].nitems = 0 /\ fault' = "none"
             /\ (current_page + 1) \in site[shown].controls)
             => (pc' = "extract" /\ current_page' = current_page + 1)]_vars

\* page 2 was reached from an empty page 1
C4_Witness ==
    /\ pc = "extract"
    /\ current_page = 2
    /\ site[1].nitems = 0
    /\ ~faulted

Increasing(s) == \A i \in 1..Len(s) : \A j \in 1..Len(s) : i < j => s[i] < s[j]

\* C5: current_page starts at 1 and goes from n only to n+1, only after a
\* control with data-num n+1 was found and clicked: the pages visited in
\* one attempt are 1,2,...,k in order, and all_page_sources holds at most
\* one entry per page number, in that order.
C5_PageOrder ==
    InTraversal =>
        /\ current_page >= 1
        /\ visited = [i \in 1..current_page |-> i]
        /\ shown = current_page
        /\ \A i \in 1..(current_page - 1) : (i + 1) \in site[i].controls
        /\ Increasing(all_page_sources)
        /\ \A i \in 1..Len(all_page_sources) :
              all_page_sources[i] \in 1..current_page

\* three pages visited, the second one empty
C5_Witness ==
    /\ pc = "break"
    /\ current_page = 3
    /\ visited = <<1, 2, 3>>
    /\ all_page_sources = <<1, 3>>

----------------------------------------------------------------------------
(* Properties of parse_normativa, stated on the items as rendered *)

\* the item containers the extractor iterates over
Located(pages) ==
    LET items == Flatten(pages)
    IN  IF \E i \in 1..Len(items) : items[i].cont = "P"
        THEN SelectSeq(items, LAMBDA it : it.cont = "P")
        ELSE items

\* the block of a field the extractor reads: the first primary one, else
\* the first secondary one
Chosen(blocks) ==
    LET prim == SelectSeq(blocks, LAMBDA b : b.v = "P")
    IN  IF prim # <<>> THEN prim[1] ELSE blocks[1]

\* the item has a title block with an anchor whose href is not empty
HasIdentity(it) ==
    /\ it.hdr # <<>>
    /\ Chosen(it.hdr).links # <<>>
    /\ Chosen(it.hdr).links[1].href \notin {NoAttr, ""}

UrlOf(it) == Chosen(it.hdr).links[1].href

\* the first occurrence of every url, in order
RECURSIVE FirstByUrl(_, _)
FirstByUrl(items, seen) ==
    IF items = <<>> THEN <<>>
    ELSE IF UrlOf(Head(items)) \in seen THEN FirstByUrl(Tail(items), seen)
    ELSE <<Head(items)>> \o FirstByUrl(Tail(items), seen \cup {UrlOf(Head(items))})

\* the items that give a record: located, with an identity, first of their url
Kept(pages) == FirstByUrl(SelectSeq(Located(pages), HasIdentity), {})

DistinctUrls(normativas) ==
    \A i \in 1..Len(normativas) : \A j \in 1..Len(normativas) :
        i # j => normativas[i].url # normativas[j].url

\* C6: the record list of a run never holds two records with the same url:
\* of an item that appears on pages 1 and 2, or several times on one page,
\* the first occurrence is kept and the later ones are dropped.
C6_NoDuplicateUrl ==
    /\ ppc = "parsed" =>
          /\ DistinctUrls(out1)
          /\ Len(out1) = Len(Kept(content))
          /\ \A i \in 1..Len(out1) :
                /\ out1[i].url = UrlOf(Kept(content)[i])
                /\ out1[i].titulo = strip(Chosen(Kept(content)[i].hdr).links[1].title)
    /\ ppc = "repeated" => DistinctUrls(outTwice)

\* the same url on page 1 and on page 2, with different titles
C6_Witness ==
    /\ ppc = "parsed"
    /\ content = << <<Item1>>, <<Item1b>> >>
    /\ Len(out1) = 1
    /\ out1[1].titulo = <<"A">>

\* C7: parse_normativa applied twice to the same html returns the same
\* list, and applied to the html repeated returns the list of the html once.
C7_Idempotent ==
    /\ ppc \in {"reparsed", "repeated", "variants"} => out2 = out1
    /\ ppc \in {"repeated", "variants"} => outTwice = out1

\* two records, from page sources accumulated twice
C7_Witness ==
    /\ ppc = "repeated"
    /\ Len(out1) = 2
    /\ outTwice = out1

\* C8: a located item is left out only when it has no title block, no
\* anchor or an empty href, or repeats an earlier url; a missing date,
\* status or comment-count block does not leave it out and gives '' for the
\* dates, '' for the status, 0 for the count; the items after a skipped
\* item are still extracted.
C8_SkipOnlyWithoutIdentity ==
    ppc = "parsed" =>
        /\ { out1[i].url : i \in 1..Len(out1) } =
              { UrlOf(Located(content)[i]) :
                  i \in { j \in 1..Len(Located(content)) :
                             HasIdentity(Located(content)[j]) } }
        /\ Len(out1) = Len(Kept(content))
        /\ \A i \in 1..Len(out1) :
              LET it == Kept(content)[i]
              IN  /\ it.fechas = <<>> =>
                        (out1[i].fecha_publicacion = <<>> /\ out1[i].fecha_cierre = <<>>)
                  /\ it.est = <<>> => out1[i].estado = <<>>
                  /\ it.com = <<>> => out1[i].comentarios = 0

\* an item without anchor, followed by an item without date block
C8_Witness ==
    /\ ppc = "parsed"
    /\ content = << <<ItemNoLink, ItemNoDates>> >>
    /\ Len(out1) = 1
    /\ out1[1].url = Url2
    /\ out1[1].fecha_publicacion = <<>>
    /\ out1[1].estado = Activa

\* the text of the count node the extractor reads; <<>> when there is none
CountText(it) ==
    IF it.com = <<>> \/ Chosen(it.com).nums = <<>> THEN <<>>
    ELSE Chosen(Chosen(it.com).nums).txt

HasCountNode(it) == it.com # <<>> /\ Chosen(it.com).nums # <<>>

\* C9: a count text that is no integer ("abc") gives comentarios 0: the
\* record is still in the list that parse_normativa returns.
C9_MalformedCountIsZero ==
    ppc = "parsed" =>
        /\ Len(out1) = Len(Kept(content))
        /\ \A i \in 1..Len(out1) :
              LET it == Kept(content)[i]
              IN  (HasCountNode(it) /\ ~py_int(CountText(it)).ok) =>
                      (out1[i].url = UrlOf(it) /\ out1[i].comentarios = 0)

\* the item whose count reads "abc" gave a record
C9_Witness ==
    /\ ppc = "parsed"
    /\ content = << <<Item2, ItemAbc>> >>
    /\ Len(out1) = 2
    /\ out1[2].url = Url1
    /\ out1[2].comentarios = 0

\* C10: for each of item container, title/link, dates, status and comment
\* count, html carrying the field only in the secondary variant gives the
\* same records as html carrying the same content in the primary variant.
C10_FallbackSameValue ==
    ppc = "variants" => outVariant.primary = outVariant.secondary

\* two records read from secondary date markup
C10_Witness ==
    /\ ppc = "variants"
    /\ outVariant.field = "dates"
    /\ Len(outVariant.secondary) = 2
    /\ outVariant.secondary[1].fecha_publicacion = Date1
    /\ outVariant.secondary[2].fecha_cierre = Date2

----------------------------------------------------------------------------
(* Properties of transform_data and json_to_csv *)

\* the rows are the records of the list, one each, in order, with their
\* dates read
RowPerRecord(rows, records) ==
    /\ Len(rows) = Len(records)
    /\ \A i \in 1..Len(rows) :
          /\ rows[i].url = records[i].url
          /\ rows[i].fecha_publicacion = strptime(records[i].fecha_publicacion)
          /\ rows[i].fecha_publicacion.ok
          /\ rows[i].fecha_cierre = strptime(records[i].fecha_cierre)
          /\ rows[i].fecha_cierre.ok

\* C12: normalization is all-or-nothing: transform_data returns one
\* normalized record per input record, in input order, or no output at all;
\* a list with a record whose date is unparsable gives no output, never an
\* output without that record; the csv file is written from that output.
C12_AllOrNothing ==
    /\ npc \in {"transformed", "converted"} =>
          /\ frame.kind \in {"None", "frame"}
          /\ frame.kind = "frame" => RowPerRecord(frame.rows, rawIn)
          /\ (\E i \in 1..Len(rawIn) : ~parsable(rawIn[i])) => frame.kind = "None"
    /\ npc = "converted" =>
          /\ csvOut.kind = "written" => RowPerRecord(csvOut.rows, rawIn)
          /\ (\E i \in 1..Len(rawIn) : ~parsable(rawIn[i])) => csvOut = NoFile

\* a good record followed by one without dates: nothing is returned
C12_Witness ==
    /\ npc = "transformed"
    /\ Len(rawIn) = 2
    /\ parsable(rawIn[1])
    /\ rawIn[2].fecha_publicacion = <<>>
    /\ frame = NoneValue

\* C13: the output of the normalization stage holds each url at most once,
\* also when the input list holds several records with the same url.
C13_OutputUrlsUnique ==
    /\ (npc \in {"transformed", "converted"} /\ frame.kind = "frame") =>
          DistinctUrls(frame.rows)
    /\ (npc = "converted" /\ csvOut.kind = "written") =>
          DistinctUrls(csvOut.rows)

\* C15: all records normalized in one call carry the same fecha_extraccion,
\* the one value datetime.now() gave for that call.
C15_SingleTimestamp ==
    /\ (npc = "transformed" /\ frame.kind = "frame") =>
          \A i \in 1..Len(frame.rows) : frame.rows[i].fecha_extraccion = now - 1
    /\ (npc = "converted" /\ csvOut.kind = "written") =>
          \A i \in 1..Len(csvOut.rows) : csvOut.rows[i].fecha_extraccion = now - 1

\* a frame of two rows
C15_Witness ==
    /\ npc = "transformed"
    /\ frame.kind = "frame"
    /\ Len(frame.rows) = 2
    /\ frame.rows[1].fecha_extraccion = frame.rows[2].fecha_extraccion

----------------------------------------------------------------------------
(* Properties of __init__ and run *)

RunReturned == rpc = "done" /\ runOutcome = "returned"

\* C11: when a record of the run has a publication or closing date that is
\* no DD/MM/YYYY date ('' included), the run ends as a failure surfaced to
\* the caller of run: run does not return normally and does not report the
\* run as finished.
C11_BadDateFailsRun ==
    (rpc = "done" /\ \E i \in 1..Len(runNormativas) : ~parsable(runNormativas[i]))
        => (runOutcome = "raised" /\ ~finished)

\* a run whose record has no dates returns normally, reports the run as
\* finished and leaves the raw dump without the normalized output
C11_Witness ==
    /\ RunReturned
    /\ \E i \in 1..Len(runNormativas) : runNormativas[i].fecha_publicacion = <<>>
    /\ finished
    /\ json_file.kind = "written"
    /\ csv_file = NoFile

\* C14: every normalized record the pipeline produces (parse_normativa, then
\* transform_data) has a comentarios >= 0, whatever the count text on the
\* page was.
C14_CountNeverNegative ==
    csv_file.kind = "written" =>
        \A i \in 1..Len(csv_file.rows) : csv_file.rows[i].comentarios >= 0

\* the count text " -5" of the page arrives as -5 in the normalized output
C14_Witness ==
    /\ RunReturned
    /\ csv_file.kind = "written"
    /\ \E i \in 1..Len(csv_file.rows) : csv_file.rows[i].comentarios = 0 - 5

\* days since a fixed day, up to a constant: later dates have larger keys
DateKey(d) == (d.y * 12 + d.m) * 31 + d.d

\* both date bounds are given, are dates, and the start is after the end
StartAfterEnd(f) ==
    /\ f.fecha_inicio # <<>>
    /\ f.fecha_fin # <<>>
    /\ strptime(f.fecha_inicio).ok
    /\ strptime(f.fecha_fin).ok
    /\ DateKey(strptime(f.fecha_inicio)) > DateKey(strptime(f.fecha_fin))

\* C16: constructing the crawler with both date bounds and the start later
\* than the end raises at construction, before setup_driver: no rendering
\* session is created and nothing is navigated to.
C16_BadRangeRaisesBeforeDriver ==
    (StartAfterEnd(filters) /\ rpc # "new") =>
        /\ rpc = "ctor_raised"
        /\ driver = "none"
        /\ quits = 0
        /\ pc = "idle"
        /\ calls = 0

\* the constructor raised on start 01/06/2024, end 05/03/2024
C16_Witness ==
    /\ rpc = "ctor_raised"
    /\ filters.fecha_inicio = DateJune
    /\ filters.fecha_fin = Date1
    /\ driver = "none"

\* C17: in apply_filters a failure while applying one present filter does
\* not stop the attempt to apply each remaining present filter and does not
\* abort the run: every present filter is tried, in order, and
\* get_page_content goes on to the first result page.
C17_FiltersBestEffort ==
    [][pc = "filters" =>
          /\ [i \in 1..Len(filterLog') |-> filterLog'[i].field] =
                SelectSeq(FilterFields, LAMBDA field : is_set(filters, field))
          /\ pc' = "extract"
          /\ current_page' = 1
          /\ rpc' = rpc]_vars

\* the first and the third of four filters failed, the fourth was applied
C17_Witness ==
    /\ pc = "extract"
    /\ rpc = "crawl"
    /\ Len(filterLog) = 4
    /\ ~filterLog[1].ok
    /\ filterLog[2].ok
    /\ ~filterLog[3].ok
    /\ filterLog[4].ok

\* C18: on every exit path of run (records emitted, no content, no records,
\* an exception) the rendering session is released: until run is over the
\* session is open and driver.quit was not called, the step that ends run
\* calls it, and a run that is over has called it exactly once.
C18_DriverQuitOnce ==
    /\ [](rpc = "done" => (quits = 1 /\ driver = "quit"))
    /\ [](rpc \in {"constructed", "crawl", "parse", "save_json", "save_csv",
                   "finally", "finally_exc"} => (quits = 0 /\ driver = "open"))
    /\ [][(rpc # "done" /\ rpc' = "done") =>
              (quits' = quits + 1 /\ driver' = "quit")]_vars

\* an exception after the records were parsed: the session is released
C18_Witness ==
    /\ rpc = "done"
    /\ runOutcome = "raised"
    /\ parsed
    /\ quits = 1
    /\ driver = "quit"

\* C19: when navigation, sector selection or entity selection fails on all
\* 3 attempts, get_page_content yields None and run aborts: it parses
\* nothing and writes neither the raw dump nor the normalized output.
C19_FetchFailedAbortsRun ==
    /\ pc = "failed" =>
          /\ Len(errs) = max_retries
          /\ \A i \in 1..Len(errs) : errs[i] \in {"nav", "sector", "entity"}
          /\ result = NoneValue
    /\ (Len(errs) = max_retries /\ pc \notin {"raise", "interrupted"}) =>
          /\ pc = "failed"
          /\ rpc \in {"crawl", "finally", "done"}
          /\ ~parsed
          /\ runNormativas = <<>>
          /\ json_file = NoFile
          /\ csv_file = NoFile
          /\ ~finished

\* three failed attempts, the run is over and nothing was written
C19_Witness ==
    /\ rpc = "done"
    /\ errs = <<"nav", "sector", "entity">>
    /\ result = NoneValue
    /\ ~parsed
    /\ json_file = NoFile

\* the pages before page n that showed item containers, in order
EarlierPages(s, n) == SelectSeq([p \in 1..(n - 1) |-> p], LAMBDA p : s[p].nitems > 0)

IsPrefix(a, b) == Len(a) <= Len(b) /\ SubSeq(b, 1, Len(a)) = a

\* C20: once page 1 has been reached, an error while processing or
\* advancing from a page n >= 2 ends the traversal there: the sources kept
\* for pages 1..n-1 are returned by get_page_content and their records are
\* in the list the run writes.
C20_LaterPageErrorKeepsEarlier ==
    (pc = "returned" /\ current_page >= 2 /\ fault # "none") =>
        /\ result.kind = "content"
        /\ IsPrefix(EarlierPages(site, current_page), result.pages)
        /\ (RunReturned /\ EarlierPages(site, current_page) # <<>>) =>
              /\ parsed
              /\ IsPrefix(parse_normativa(Soup(RunPages(catalog, site,
                              EarlierPages(site, current_page)))),
                          runNormativas)
              /\ json_file = written_json(runNormativas)

\* page 2 could not be processed; the record of page 1 was written
C20_Witness ==
    /\ RunReturned
    /\ current_page = 2
    /\ fault = "page"
    /\ result = Content(<<1>>)
    /\ json_file.kind = "written"
    /\ Len(json_file.rows) = 1

----------------------------------------------------------------------------
(* Properties of an empty traversal *)

\* the attempt went through the listing without a renderer fault and no page
\* showed an item container
EmptyTraversal ==
    /\ pc = "returned"
    /\ ~faulted
    /\ errs = <<>>
    /\ \A i \in 1..Len(visited) : site[visited[i]].nitems = 0

\* C21: a run whose traversal completes without error and finds no item on
\* any page ends as a successful run with an empty record set: it reaches
\* parse_normativa, reports that no records were found, and does not report
\* that the page content could not be obtained (the report of Fetch-Failed).
C21_EmptyTraversalIsSuccess ==
    (RunReturned /\ EmptyTraversal) =>
        /\ parsed
        /\ runNormativas = <<>>
        /\ reported = "no_records"

\* a traversal of two pages without items and without error ends the run
\* with the report of a page that could not be obtained
C21_Witness ==
    /\ RunReturned
    /\ EmptyTraversal
    /\ visited = <<1, 2>>
    /\ result = Content(<<>>)
    /\ ~parsed
    /\ reported = "no_content"

----------------------------------------------------------------------------
(* Properties of the date conversion and of json_to_csv *)

DateColumns == {"fecha_publicacion", "fecha_cierre"}

\* the number a run of digits of a date text stands for
FieldValue(text, from, to) == DigitsValue(SubSeq(text, from, to), 0)

\* C22: for every record of a normalized frame and each of its two dates,
\* written as a zero-padded DD/MM/YYYY text d, the normalized value is the
\* calendar date with the day, month and year d names, and formatting that
\* date with '%d/%m/%Y' gives d back.
C22_DateRoundTrip ==
    (npc # "ready" /\ frame.kind = "frame") =>
        \A i \in 1..Len(rawIn) : \A c \in DateColumns :
            LET text == rawIn[i][c]
                date == frame.rows[i][c]
            IN  Len(text) = 10 =>
                  /\ date.ok
                  /\ date.d = FieldValue(text, 1, 2)
                  /\ date.m = FieldValue(text, 4, 5)
                  /\ date.y = FieldValue(text, 7, 10)
                  /\ strftime(date, FormatDmy) = text

\* "05/03/2024" became the 5th of March 2024 and 29 February of a leap
\* year was taken as a date
C22_Witness ==
    /\ npc = "transformed"
    /\ frame.kind = "frame"
    /\ \E i \in 1..Len(rawIn) :
          /\ rawIn[i].fecha_publicacion = Date1
          /\ frame.rows[i].fecha_publicacion = [ok |-> TRUE, y |-> 2024, m |-> 3, d |-> 5]
    /\ \E i \in 1..Len(rawIn) :
          /\ rawIn[i].fecha_publicacion = DateLeap
          /\ frame.rows[i].fecha_publicacion = [ok |-> TRUE, y |-> 2024, m |-> 2, d |-> 29]

\* the rows without the time of the extraction
WithoutStamp(rows) == [i \in 1..Len(rows) |-> [rows[i] EXCEPT !.fecha_extraccion = 0]]

\* C23: json_to_csv on the json dump of a record list writes a csv exactly
\* when transform_data / save_to_csv give one for the list, and then with
\* the same rows, fecha_extraccion apart, and the same statistics.
C23_ConversionAgrees ==
    npc \in {"converted", "facts"} =>
        /\ (frame.kind = "None") <=> (csvOut = NoFile)
        /\ csvOut.kind = save_to_csv(rawIn, now).kind
        /\ frame.kind = "frame" =>
              /\ WithoutStamp(csvOut.rows) = WithoutStamp(frame.rows)
              /\ csvOut.stats = written_csv(frame).stats

\* two records of different estado, one with a title to clean, converted
\* at another time than they were transformed
C23_Witness ==
    /\ npc = "converted"
    /\ csvOut.kind = "written"
    /\ Len(rawIn) = 2
    /\ \E i \in 1..2 : rawIn[i].titulo = TitleSpaced /\ csvOut.rows[i].titulo = <<"A", " ", "B">>
    /\ csvOut.stats.total_normativas = 2
    /\ DOMAIN csvOut.stats.normativas_por_estado = {Activa, Cerrada}
    /\ csvOut.stats.normativas_por_estado[Cerrada] = 1
    /\ csvOut.rows[1].fecha_extraccion # frame.rows[1].fecha_extraccion

\* record i of the list closes before it was published
ClosesBeforePublished(n) ==
    /\ parsable(n)
    /\ later_than(strptime(n.fecha_publicacion), strptime(n.fecha_cierre))

\* C24: a record whose closing date is earlier than its publication date is
\* normalized and exported like any other (it makes no normalization fail
\* and its row keeps both dates as they are), and its row of the fact table
\* has a negative dias_consulta.
C24_ClosingBeforePublishedKept ==
    \A i \in 1..Len(rawIn) : ClosesBeforePublished(rawIn[i]) =>
        /\ (npc # "ready" /\ \A j \in 1..Len(rawIn) : parsable(rawIn[j])) =>
              /\ frame.kind = "frame"
              /\ later_than(frame.rows[i].fecha_publicacion, frame.rows[i].fecha_cierre)
        /\ (npc \in {"converted", "facts"} /\ frame.kind = "frame") =>
              /\ csvOut.kind = "written"
              /\ csvOut.rows[i].fecha_cierre = strptime(rawIn[i].fecha_cierre)
              /\ csvOut.rows[i].fecha_publicacion = strptime(rawIn[i].fecha_publicacion)
        /\ (npc = "facts" /\ fact.kind = "frame") =>
              fact.rows[i].dias_consulta < 0

\* published on 20/04/2024 and closed on 05/03/2024: 46 days before
C24_Witness ==
    /\ npc = "facts"
    /\ fact.kind = "frame"
    /\ csvOut.kind = "written"
    /\ \E i \in 1..Len(rawIn) :
          /\ rawIn[i].fecha_publicacion = Date2
          /\ rawIn[i].fecha_cierre = Date1
          /\ fact.rows[i].dias_consulta = 0 - 46

----------------------------------------------------------------------------
(* Properties of the filter values *)

Elements(seq) == { seq[i] : i \in 1..Len(seq) }

\* the choice filters are absent or one of the offered values
ChoicesValid(f) ==
    /\ f.estado \in Elements(ESTADOS_VALIDOS) \cup {""}
    /\ f.tipo_documento \in Elements(TIPOS_DOCUMENTO) \cup {""}

\* C25: every crawler whose construction succeeded holds a status that is
\* absent or in ESTADOS_VALIDOS and a document type that is absent or in
\* TIPOS_DOCUMENTO, so apply_filters never works with a value outside these
\* lists.
C25_ConstructedChoicesValid ==
    /\ driver # "none" => ChoicesValid(filters)
    /\ filterLog # <<>> => ChoicesValid(filters)

\* the constructor took the estado "Borrador" and apply_filters tried to
\* select it
C25_Witness ==
    /\ rpc = "crawl"
    /\ pc = "extract"
    /\ driver = "open"
    /\ filters.estado = "Borrador"
    /\ filters.estado \notin Elements(ESTADOS_VALIDOS)
    /\ Len(filterLog) = 2
    /\ filterLog[1].field = "estado"

----------------------------------------------------------------------------
(* Properties of the per-field fallback *)

\* the item has a primary block of the field and, after it, a secondary one
TwoTier(blocks) ==
    /\ Len(blocks) = 2
    /\ blocks[1].v = "P"
    /\ blocks[2].v = "S"

\* C26 as stated: when the primary block of the status, the comment count
\* or the dates of an item has no value node and a secondary block of the
\* same item has one, the record holds the value of the secondary block.
C26_FirstSuccessWins ==
    ppc = "parsed" =>
        \A i \in 1..Len(out1) :
            LET it == Kept(content)[i]
            IN  /\ (TwoTier(it.est) /\ it.est[1].inner = <<>> /\ it.est[2].inner # <<>>)
                      => out1[i].estado = strip(it.est[2].inner[1])
                /\ (TwoTier(it.com) /\ it.com[1].nums = <<>> /\ it.com[2].nums # <<>>)
                      => out1[i].comentarios = py_int(it.com[2].nums[1].txt).val
                /\ (TwoTier(it.fechas) /\ it.fechas[1].pub = <<>> /\ it.fechas[2].pub # <<>>)
                      => out1[i].fecha_publicacion # <<>>

\* C26 amended: the block of a field is chosen by presence alone (the
\* primary one when the item has it, else the secondary one); when the
\* chosen block has no value node the record holds the default ('' or 0),
\* whatever another block of the item carries.
C26_FirstBlockFoundWins ==
    ppc = "parsed" =>
        \A i \in 1..Len(out1) :
            LET it == Kept(content)[i]
            IN  /\ (it.est # <<>> /\ Chosen(it.est).inner = <<>>)
                      => out1[i].estado = <<>>
                /\ (it.est # <<>> /\ Chosen(it.est).inner # <<>>)
                      => out1[i].estado = strip(Chosen(it.est).inner[1])
                /\ (it.com # <<>> /\ Chosen(it.com).nums = <<>>)
                      => out1[i].comentarios = 0
                /\ (it.fechas # <<>> /\ Chosen(it.fechas).pub = <<>>)
                      => out1[i].fecha_publicacion = <<>>
                /\ (it.fechas # <<>> /\ Chosen(it.fechas).cie # <<>>
                      /\ Chosen(Chosen(it.fechas).cie).spans = <<>>)
                      => out1[i].fecha_cierre = <<>>

\* the primary blocks are hollow, the secondary ones say Cerrada, 9 and two
\* dates: the record has the defaults
C26_Witness ==
    /\ ppc = "parsed"
    /\ content = << <<ItemTwoBlocks>> >>
    /\ Len(out1) = 1
    /\ out1[1].estado = <<>>
    /\ out1[1].comentarios = 0
    /\ out1[1].fecha_publicacion = <<>>
    /\ out1[1].fecha_cierre = <<>>

----------------------------------------------------------------------------
(* Properties of the item container variants *)

\* every page uses one container variant for all its items
PagesHomogeneous(pages) ==
    \A p \in 1..Len(pages) : \A i, j \in 1..Len(pages[p]) :
        pages[p][i].cont = pages[p][j].cont

\* the items of all pages that give a record when every page is read
KeptOfEveryPage(pages) == FirstByUrl(SelectSeq(Flatten(pages), HasIdentity), {})

\* C27: when the accumulated pages of one run use different item container
\* variants, each page only one of them, the items of every page are
\* extracted: the record list has one record for each item with an
\* identity, first occurrence of its url, whatever the variant of its page.
C27_MixedVariantPagesExtracted ==
    (ppc = "parsed" /\ PagesHomogeneous(content)) =>
        /\ Len(out1) = Len(KeptOfEveryPage(content))
        /\ \A i \in 1..Len(out1) : out1[i].url = UrlOf(KeptOfEveryPage(content)[i])

\* page 1 in the primary variant, page 2 in the secondary one: the item of
\* page 2 gives no record
C27_Witness ==
    /\ ppc = "parsed"
    /\ content = << <<Item2>>, <<AllSecondary(Item1, Fields)>> >>
    /\ Len(out1) = 1
    /\ out1[1].url = Url2

----------------------------------------------------------------------------
(* Properties of the attempts of get_page_content *)

\* C28: every attempt of get_page_content starts from the navigation, at
\* page 1 and with an empty accumulation; an attempt that failed kept no
\* page source; the content returned holds the page sources of the attempt
\* that returned it and nothing else: pages that attempt visited and found
\* items on, each once, in order.
C28_ResultFromOneAttempt ==
    /\ pc \in {"sector", "entity", "filters"} =>
          /\ all_page_sources = <<>>
          /\ shown = 1
          /\ visited = <<>>
    /\ pc \in {"sleep", "raise", "failed"} => all_page_sources = <<>>
    /\ result.kind = "content" =>
          /\ result.pages = all_page_sources
          /\ Increasing(result.pages)
          /\ Len(errs) = calls - 1
          /\ \A i \in 1..Len(result.pages) :
                /\ \E j \in 1..Len(visited) : visited[j] = result.pages[i]
                /\ site[result.pages[i]].nitems > 0

\* two attempts failed before the loop, the third one returned pages 1 and 2
C28_Witness ==
    /\ pc = "returned"
    /\ calls = 3
    /\ Len(errs) = 2
    /\ result = Content(<<1, 2>>)
    /\ visited = <<1, 2>>

----------------------------------------------------------------------------
(* Properties of the order of the two outputs of run *)

----------------------------------------------------------------------------
(* solicitar_filtros *)

\* solicitar_filtros reads at most MaxInputs console lines
MaxInputs == 5

\* what the user may type at the two menus
ChoiceInputs ==
    { <<>>, <<" ">>, <<"1">>, <<" ", "3", " ">>, <<"0">>, <<"4">>,
      <<"1", "7">>, <<"1", "8">>, <<"-", "1">>, <<"x">> }

\* what the user may type at the two date questions
DateInputs ==
    { <<>>, <<" ", " ">>, Date1, <<" ">> \o Date2 \o <<" ">>, DateJune, DateIso,
      DateNoSuchDay }

\* one of the two menus: Enter gives None; a number of the list gives its
\* entry; anything else asks again
menu_choice(line, options) ==
    LET text == strip(line)
        r    == py_int(text)
    IN  IF text = <<>> THEN [done |-> TRUE, value |-> ""]
        ELSE IF r.ok /\ 0 <= r.val - 1 /\ r.val - 1 < Len(options)
             THEN [done |-> TRUE, value |-> options[r.val]]
             ELSE [done |-> FALSE, value |-> ""]

\* mutant: the two dates are not compared
range_unchecked(inicio, fin) == TRUE

\* `if inicio <= fin: break`
range_accepted(inicio, fin) == ~later_than(inicio, fin)

\* the first menu: estado
AskEstado ==
    /\ prompt.at = "estado"
    /\ prompt.asked < MaxInputs
    /\ \E line \in ChoiceInputs :
         LET c == menu_choice(line, ESTADOS_VALIDOS)
         IN  prompt' = [prompt EXCEPT !.asked = @ + 1,
                                      !.estado = IF c.done THEN c.value ELSE @,
                                      !.at = IF c.done THEN "tipo" ELSE @]
    /\ UNCHANGED <<crawlVars, parseVars, normVars, runVars, filterLog>>

\* the second menu: tipo_documento
AskTipo ==
    /\ prompt.at = "tipo"
    /\ prompt.asked < MaxInputs
    /\ \E line \in ChoiceInputs :
         LET c == menu_choice(line, TIPOS_DOCUMENTO)
         IN  prompt' = [prompt EXCEPT !.asked = @ + 1,
                                      !.tipo_documento = IF c.done THEN c.value ELSE @,
                                      !.at = IF c.done THEN "inicio" ELSE @]
    /\ UNCHANGED <<crawlVars, parseVars, normVars, runVars, filterLog>>

\* the date loop, first question: Enter leaves both dates None
AskFechaInicio ==
    /\ prompt.at = "inicio"
    /\ prompt.asked < MaxInputs
    /\ \E line \in DateInputs :
         IF strip(line) = <<>>
         THEN prompt' = [prompt EXCEPT !.asked = @ + 1, !.fecha_inicio = <<>>,
                                       !.fecha_fin = <<>>, !.at = "return"]
         ELSE prompt' = [prompt EXCEPT !.asked = @ + 1, !.fecha_inicio = strip(line),
                                       !.at = "fin"]
    /\ UNCHANGED <<crawlVars, parseVars, normVars, runVars, filterLog>>

\* the date loop, second question: Enter leaves both dates None; two dates
\* in order end the loop; anything else starts the loop again
AskFechaFin ==
    /\ prompt.at = "fin"
    /\ prompt.asked < MaxInputs
    /\ \E line \in DateInputs :
         IF strip(line) = <<>>
         THEN prompt' = [prompt EXCEPT !.asked = @ + 1, !.fecha_inicio = <<>>,
                                       !.fecha_fin = <<>>, !.at = "return"]
         ELSE prompt' =
                [prompt EXCEPT
                   !.asked = @ + 1,
                   !.fecha_fin = strip(line),
                   !.at = IF /\ strptime(prompt.fecha_inicio).ok
                             /\ strptime(strip(line)).ok
                             /\ range_accepted(strptime(prompt.fecha_inicio),
                                               strptime(strip(line)))
                          THEN "return" ELSE "inicio"]
    /\ UNCHANGED <<crawlVars, parseVars, normVars, runVars, filterLog>>

\* `return estado, tipo_documento, fecha_inicio, fecha_fin`; the caller asks
\* for a confirmation and passes the four values to the constructor
ReturnFilters ==
    /\ prompt.at = "return"
    /\ prompt' = [prompt EXCEPT !.at = "returned"]
    /\ filters' = [estado |-> prompt.estado, tipo_documento |-> prompt.tipo_documento,
                   fecha_inicio |-> prompt.fecha_inicio, fecha_fin |-> prompt.fecha_fin]
    /\ \E confirmed \in BOOLEAN : rpc' = IF confirmed THEN "new" ELSE "cancelled"
    /\ UNCHANGED <<catalog, driver, quits, runNormativas, parsed, json_file,
                   csv_file, finished, reported, runOutcome, filterLog>>
    /\ UNCHANGED <<crawlVars, parseVars, normVars>>

InitPrompt ==
    /\ prompt = [at |-> "estado", asked |-> 0, estado |-> "", tipo_documento |-> "",
                 fecha_inicio |-> <<>>, fecha_fin |-> <<>>]
    /\ filters = NoFilters
    /\ filterLog = <<>>
    /\ catalog = "none"
    /\ rpc = "idle"
    /\ driver = "none"
    /\ quits = 0
    /\ runNormativas = <<>>
    /\ parsed = FALSE
    /\ json_file = NoFile
    /\ csv_file = NoFile
    /\ finished = FALSE
    /\ reported = "none"
    /\ runOutcome = "none"
    /\ NormIdle
    \* no get_page_content and no parse_normativa in this specification
    /\ site = <<>>
    /\ pc = "idle"
    /\ attempt = 0
    /\ calls = 0
    /\ sleeps = 0
    /\ errs = <<>>
    /\ current_page = 0
    /\ shown = 0
    /\ all_page_sources = <<>>
    /\ visited = <<>>
    /\ fault = "none"
    /\ faulted = FALSE
    /\ endReason = "none"
    /\ retryOutcome = NoOutcome
    /\ result = NoOutcome
    /\ content = <<>>
    /\ ppc = "idle"
    /\ out1 = <<>>
    /\ out2 = <<>>
    /\ outTwice = <<>>
    /\ outVariant = <<>>

NextPrompt ==
    \/ AskEstado
    \/ AskTipo
    \/ AskFechaInicio
    \/ AskFechaFin
    \/ ReturnFilters
    \/ Construct

SpecPrompt == InitPrompt /\ [][NextPrompt]_vars

(* Properties of solicitar_filtros *)

\* the two dates are both absent, or both dates with the start not after
\* the end
DatesValid(f) ==
    \/ f.fecha_inicio = <<>> /\ f.fecha_fin = <<>>
    \/ /\ strptime(f.fecha_inicio).ok
       /\ strptime(f.fecha_fin).ok
       /\ ~later_than(strptime(f.fecha_inicio), strptime(f.fecha_fin))

\* C30: whatever lines the user types, the four values solicitar_filtros
\* returns pass the checks of the constructor: the status is absent or in
\* ESTADOS_VALIDOS, the type is absent or in TIPOS_DOCUMENTO, the dates are
\* both absent or both DD/MM/YYYY dates with start <= end (a start date
\* followed by an empty end date gives both absent), and the date check of
\* __init__ does not reject them.
C30_PromptedFiltersValid ==
    /\ prompt.at \in {"return", "returned"} =>
          LET f == [estado |-> prompt.estado, tipo_documento |-> prompt.tipo_documento,
                    fecha_inicio |-> prompt.fecha_inicio, fecha_fin |-> prompt.fecha_fin]
          IN  /\ ChoicesValid(f)
              /\ DatesValid(f)
              /\ ~dates_rejected(f)
    /\ prompt.at = "returned" =>
          /\ ChoicesValid(filters)
          /\ DatesValid(filters)
          /\ ~dates_rejected(filters)

\* five lines were read, one of them refused and asked again: the dates
\* were left out and a crawler was made of the values returned
C30_Witness ==
    /\ prompt.at = "returned"
    /\ prompt.asked = 5
    /\ filters.estado = "Finalizada"
    /\ filters.fecha_inicio = <<>>
    /\ filters.fecha_fin = <<>>
    /\ rpc = "constructed"

----------------------------------------------------------------------------
(* Properties of the fact table *)

\* C31: in the fact table two records with different urls never have the
\* same id_normativa.
C31_IdsUnique ==
    (npc = "facts" /\ fact.kind = "frame") =>
        \A i, j \in 1..Len(fact.rows) :
            fact.rows[i].url # fact.rows[j].url =>
                fact.rows[i].id_normativa # fact.rows[j].id_normativa

\* the ids are below 10**8 and not negative, and two records with different
\* urls got the id 7
C31_Witness ==
    /\ npc = "facts"
    /\ fact.kind = "frame"
    /\ Len(fact.rows) = 2
    /\ fact.rows[1].url = Url1
    /\ fact.rows[2].url = Url2
    /\ fact.rows[1].id_normativa = 7
    /\ fact.rows[2].id_normativa = 7
    /\ \A i \in 1..2 : fact.rows[i].id_normativa \in 0..(id_modulus - 1)

============================================================================
